---- MODULE Spec2Model ----
(***************************************************************************)
(* Property-management application: the route handlers under /api/landlord *)
(* and /api/tenant over the relational store they share.                   *)
(*                                                                         *)
(* Every handler is an operator from the store and the request to its      *)
(* outcome: the response and the store it leaves.  A handler that writes   *)
(* is also an action, which commits the store of that outcome; the         *)
(* response goes to the caller and is not kept.  A GET handler writes      *)
(* nothing and stays an operator.                                          *)
(*                                                                         *)
(* A collaborator that throws (a query, a write, the gateway, the body     *)
(* parser) is the `fault` argument of a handler: it names the call that    *)
(* throws, "none" when none does.                                          *)
(***************************************************************************)
EXTENDS Integers, Sequences, FiniteSets, TLC

VARIABLES
    properties,   \* Property rows: id -> [ownerId, name, totalUnits]
    units,        \* Unit rows: id -> [propertyId, unitNumber, status]
    leases,       \* Lease rows: id -> [tenantId, unitId, status]
    requests,     \* MaintenanceRequest rows: id -> [tenantId, unitId, status, priority, acknowledgedAt, completedAt]
    updates,      \* MaintenanceUpdate rows in creation order
    payments,     \* Payment rows in creation order
    users,        \* User rows: id -> [role, stripeCustomerId, status, emailNotifications,
                  \*   telegramNotifications, telegramChatId]
    notifications, \* Notification rows: id -> [userId, category, readAt]
    audit,        \* AuditLog rows in creation order
    gateway,      \* the payment gateway: [customers, intents, setups]
    now,          \* the clock read by new Date()
    area,         \* the route group that receives the requests of this run
    inflight,     \* handlers between their reads and their transaction, in the overlapping runs
    outbox,       \* the messages handed to the email and the Telegram sender, in order
    wizard,       \* the onboarding wizard in the browser: OnboardingProvider and ReviewSignStep
    browser       \* a page request on its way through the middleware

vars == <<properties, units, leases, requests, updates, payments, users, notifications, audit, gateway, now,
          area, inflight, outbox, wizard, browser>>

----------------------------------------------------------------------------
(* Bounds of the model *)

MaxUpdates == 3       \* MaintenanceUpdate rows, in the lifecycle runs
MaxLog == 2           \* MaintenanceUpdate rows, in the runs over every caller and body
MaxTime == 3          \* clock readings stored
MaxPayments == 1      \* Payment rows
MaxIntents == 2       \* charge intents at the gateway
MaxCustomers == 2     \* customers at the gateway
MaxUnits == 3         \* Unit rows
MaxProperties == 3    \* Property rows
MaxTotalUnits == 2    \* Property.totalUnits stays within 0..MaxTotalUnits
MaxLedger == 2        \* Payment rows, in the settlement runs
MaxRepairs == 2       \* MaintenanceRequest rows, in the repair runs
MaxNotices == 3       \* Notification rows
MaxSent == 2          \* messages handed to the senders
MaxPosts == 2         \* POSTs the wizard sends
MaxInflight == 2      \* handlers that overlap
MaxLeases == 4        \* Lease rows
MaxRequests == 3      \* MaintenanceRequest rows

----------------------------------------------------------------------------
(* Values *)

NONE == "undefined"          \* an optional field left out of a body, a missing query parameter
NULL == 0                    \* a null column
NoData == {}                 \* a response without a data field
Anon == "anon"               \* a request without a session

UserIds == {"L1", "L2", "T1", "T2", "A"}
Sessions == UserIds \cup {Anon}

PropertyPool == <<"P1", "P2", "P3", "P4", "P5">>
UnitPool == <<"U1", "U2", "U3", "U4", "U5">>

maintenanceStatuses == {"SUBMITTED", "ACKNOWLEDGED", "IN_PROGRESS", "ON_HOLD", "COMPLETED", "CANCELLED"}
maintenancePriorities == {"LOW", "MEDIUM", "HIGH", "EMERGENCY"}

\* The tables a handler reads and writes, as one value
Store ==
    [properties |-> properties, units |-> units, leases |-> leases, requests |-> requests,
     updates |-> updates, payments |-> payments, users |-> users, notifications |-> notifications,
     audit |-> audit]

Response(op, status, error, data) ==
    [op |-> op, status |-> status, error |-> error, data |-> data]

\* What a handler leaves: its response, the store, the gateway and the clock
Outcome(r, store, gw, t) == [resp |-> r, store |-> store, gateway |-> gw, now |-> t]

\* A handler that returns before its first write
Reply(op, status, error) == Outcome(Response(op, status, error, NoData), Store, gateway, now)

\* Mutation: the last message of the schema instead of the first
ValidationErrorLast(op, result) == Reply(op, 400, result.errors[Len(result.errors)])

\* { success: false, error: result.error.errors[0].message }, { status: 400 }
ValidationError(op, result) == Reply(op, 400, result.errors[1])

\* session.user.role
Role(u) == IF u \in DOMAIN users THEN users[u].role ELSE NONE

\* unit.property.ownerId
UnitOwner(unitId) == properties[units[unitId].propertyId].ownerId

\* The first id of a pool (a sequence of ids) that names no row
NewId(pool, table) ==
    LET free == {i \in 1..Len(pool) : pool[i] \notin DOMAIN table}
    IN pool[CHOOSE i \in free : \A j \in free : i <= j]

\* The elements of a sequence
Range(s) == {s[i] : i \in 1..Len(s)}

\* The store, the gateway and the clock a handler leaves become the state
Write(out) ==
    /\ properties' = out.store.properties
    /\ units' = out.store.units
    /\ leases' = out.store.leases
    /\ requests' = out.store.requests
    /\ updates' = out.store.updates
    /\ payments' = out.store.payments
    /\ users' = out.store.users
    /\ notifications' = out.store.notifications
    /\ audit' = out.store.audit
    /\ gateway' = out.gateway
    /\ now' = out.now

\* A handler that runs from its first read to its response with no other
\* handler in between
Commit(out) == Write(out) /\ UNCHANGED <<area, inflight, outbox, wizard, browser>>

----------------------------------------------------------------------------
(* src/lib/validators/maintenance.ts *)

\* schema.safeParse(body): the issues in the order of the schema's fields
SchemaResult(errors, data) ==
    [success |-> errors = <<>>, errors |-> errors, data |-> data]

\* A body is a record of its fields and `malformed` (request.json() throws).
\* A field is NONE when the body leaves it out and "BOGUS" when it holds a
\* value outside its enum.
EnumIssue(field) == <<"Invalid enum value", field>>

updateMaintenanceRequestSchema(body) ==
    SchemaResult(
        (IF body.status \in maintenanceStatuses \cup {NONE} THEN <<>> ELSE <<EnumIssue("status")>>)
        \o (IF body.priority \in maintenancePriorities \cup {NONE} THEN <<>> ELSE <<EnumIssue("priority")>>),
        [status |-> body.status, priority |-> body.priority])

addMaintenanceUpdateSchema(body) ==
    SchemaResult(
        (IF body.message = NONE THEN <<<<"Required", "message">>>>
         ELSE IF body.message = "" THEN <<<<"Message is required", "message">>>>
         ELSE <<>>)
        \o (IF body.newStatus \in maintenanceStatuses \cup {NONE} THEN <<>> ELSE <<EnumIssue("newStatus")>>),
        [message |-> body.message, newStatus |-> body.newStatus,
         isPublic |-> IF body.isPublic = NONE THEN TRUE ELSE body.isPublic = "true"])

----------------------------------------------------------------------------
(* src/app/api/landlord/maintenance/[id]/route.ts *)

UpdatesOf(id) == SelectSeq(updates, LAMBDA r : r.requestId = id)

\* A stored request as a response shows it
RequestView(id, row) == [id |-> id] @@ row

\* GET /api/landlord/maintenance/[id]: the request with all its updates
LandlordMaintenanceGET(u, id, fault) ==
    IF u = Anon THEN Reply("GET maintenance", 401, "Unauthorized")
    ELSE IF fault # "none" THEN Reply("GET maintenance", 500, "Failed to fetch maintenance request")
    ELSE IF id \notin DOMAIN requests THEN Reply("GET maintenance", 404, "Maintenance request not found")
    ELSE IF UnitOwner(requests[id].unitId) # u /\ Role(u) # "ADMIN"
         THEN Reply("GET maintenance", 403, "Forbidden")
    ELSE Outcome(Response("GET maintenance", 200, NONE,
                          {[request |-> RequestView(id, requests[id]), updates |-> UpdatesOf(id)]}),
                 Store, gateway, now)

\* Mutation: a PUT that names a status counts as a change
PutStatusNamed(existing, data) ==
    data.status # NONE

\* statusChanged of PUT
PutStatusChanged(existing, data) ==
    data.status # NONE /\ data.status # existing.status

\* Mutation: the timestamp is set whenever ACKNOWLEDGED is named
PutNamesAcknowledged(existing, data) ==
    data.status = "ACKNOWLEDGED"

\* Mutation: the timestamp is set only on the way from SUBMITTED
PutAcknowledgesSubmitted(existing, data) ==
    data.status = "ACKNOWLEDGED" /\ existing.status = "SUBMITTED" /\ existing.acknowledgedAt = NULL

\* PUT sets acknowledgedAt
PutSetsAcknowledgedAt(existing, data) ==
    data.status = "ACKNOWLEDGED" /\ existing.acknowledgedAt = NULL

\* PUT sets completedAt
PutSetsCompletedAt(existing, data) ==
    data.status = "COMPLETED" /\ existing.completedAt = NULL

\* Mutation: a PUT that keeps the status of a completed or cancelled request
PutUpdateDataTerminal(row, existing, data, t) ==
    [row EXCEPT
        !.status = IF data.status # NONE /\ @ \notin {"COMPLETED", "CANCELLED"} THEN data.status ELSE @,
        !.priority = IF data.priority # NONE THEN data.priority ELSE @,
        !.acknowledgedAt = IF PutSetsAcknowledgedAt(existing, data) THEN t ELSE @,
        !.completedAt = IF PutSetsCompletedAt(existing, data) THEN t ELSE @]

\* updateData of PUT, built from the row the handler read (existing) and
\* applied to the row as stored when the update runs; t is new Date()
PutUpdateData(row, existing, data, t) ==
    [row EXCEPT
        !.status = IF data.status # NONE THEN data.status ELSE @,
        !.priority = IF data.priority # NONE THEN data.priority ELSE @,
        !.acknowledgedAt = IF PutSetsAcknowledgedAt(existing, data) THEN t ELSE @,
        !.completedAt = IF PutSetsCompletedAt(existing, data) THEN t ELSE @]

StatusMessage(prev, new) == <<"Status changed from", prev, "to", new>>

\* The row PUT logs when the status changed
PutLogRow(id, existing, data) ==
    [requestId |-> id, previousStatus |-> existing.status, newStatus |-> data.status,
     message |-> StatusMessage(existing.status, data.status), isPublic |-> TRUE]

\* Mutation: the update of the request is kept and the log row is lost
PutUpdateOnly(id, existing, data, t) ==
    [Store EXCEPT !.requests = [requests EXCEPT ![id] = PutUpdateData(@, existing, data, t)]]

\* The transaction of PUT: maintenanceRequest.update, then maintenanceUpdate.create
PutTransaction(id, existing, data, t) ==
    [Store EXCEPT
        !.requests = [requests EXCEPT ![id] = PutUpdateData(@, existing, data, t)],
        !.updates = IF PutStatusChanged(existing, data)
                    THEN Append(updates, PutLogRow(id, existing, data)) ELSE updates]

\* PUT /api/landlord/maintenance/[id]
LandlordMaintenancePUT(u, id, body, fault) ==
    LET failed == Reply("PUT maintenance", 500, "Failed to update maintenance request") IN
    IF u = Anon THEN Reply("PUT maintenance", 401, "Unauthorized")
    ELSE IF fault = "findUnique" THEN failed
    ELSE IF id \notin DOMAIN requests THEN Reply("PUT maintenance", 404, "Maintenance request not found")
    ELSE IF UnitOwner(requests[id].unitId) # u /\ Role(u) # "ADMIN"
         THEN Reply("PUT maintenance", 403, "Forbidden")
    ELSE IF body.malformed THEN failed
    ELSE LET result == updateMaintenanceRequestSchema(body) IN
    IF ~result.success THEN ValidationError("PUT maintenance", result)
    ELSE LET data == result.data
             existing == requests[id]
             readsClock == PutSetsAcknowledgedAt(existing, data) \/ PutSetsCompletedAt(existing, data)
             t == IF readsClock THEN now + 1 ELSE now
             after == PutTransaction(id, existing, data, t)
         IN
         \* a write that throws rolls the transaction back
         IF fault = "update" \/ (fault = "create" /\ PutStatusChanged(existing, data)) THEN failed
         ELSE Outcome(Response("PUT maintenance", 200, NONE, {RequestView(id, after.requests[id])}),
                      after, gateway, t)

PostStatusChanged(existing, data) ==
    data.newStatus # NONE /\ data.newStatus # existing.status

\* Mutation: the row records the status the body names, also when it names
\* none
PostLogRowNamed(id, existing, data) ==
    [requestId |-> id, previousStatus |-> existing.status, newStatus |-> data.newStatus,
     message |-> <<data.message>>, isPublic |-> data.isPublic]

\* The row POST creates
PostLogRow(id, existing, data) ==
    [requestId |-> id, previousStatus |-> existing.status,
     newStatus |-> IF data.newStatus # NONE THEN data.newStatus ELSE existing.status,
     message |-> <<data.message>>, isPublic |-> data.isPublic]

PostSetsAcknowledgedAt(existing, data) ==
    data.newStatus = "ACKNOWLEDGED" /\ existing.acknowledgedAt = NULL

PostSetsCompletedAt(existing, data) ==
    data.newStatus = "COMPLETED" /\ existing.completedAt = NULL

\* The data of maintenanceRequest.update in POST, built from the row the
\* handler read and applied to the row as stored; t is new Date()
PostUpdateData(row, existing, data, t) ==
    [row EXCEPT
        !.status = data.newStatus,
        !.acknowledgedAt = IF PostSetsAcknowledgedAt(existing, data) THEN t ELSE @,
        !.completedAt = IF PostSetsCompletedAt(existing, data) THEN t ELSE @]

\* The transaction of POST: maintenanceUpdate.create, then maintenanceRequest.update
PostTransaction(id, existing, data, t) ==
    [Store EXCEPT
        !.updates = Append(updates, PostLogRow(id, existing, data)),
        !.requests = IF PostStatusChanged(existing, data)
                     THEN [requests EXCEPT ![id] = PostUpdateData(@, existing, data, t)] ELSE requests]

\* POST /api/landlord/maintenance/[id]: add an update or comment
LandlordMaintenancePOST(u, id, body, fault) ==
    LET failed == Reply("POST maintenance", 500, "Failed to add update") IN
    IF u = Anon THEN Reply("POST maintenance", 401, "Unauthorized")
    ELSE IF fault = "findUnique" THEN failed
    ELSE IF id \notin DOMAIN requests THEN Reply("POST maintenance", 404, "Maintenance request not found")
    ELSE IF UnitOwner(requests[id].unitId) # u /\ Role(u) # "ADMIN"
         THEN Reply("POST maintenance", 403, "Forbidden")
    ELSE IF body.malformed THEN failed
    ELSE LET result == addMaintenanceUpdateSchema(body) IN
    IF ~result.success THEN ValidationError("POST maintenance", result)
    ELSE LET data == result.data
             existing == requests[id]
             readsClock == /\ PostStatusChanged(existing, data)
                           /\ PostSetsAcknowledgedAt(existing, data) \/ PostSetsCompletedAt(existing, data)
             t == IF readsClock THEN now + 1 ELSE now
             after == PostTransaction(id, existing, data, t)
         IN
         IF fault = "create" \/ (fault = "update" /\ PostStatusChanged(existing, data)) THEN failed
         ELSE Outcome(Response("POST maintenance", 201, NONE, {PostLogRow(id, existing, data)}),
                      after, gateway, t)

----------------------------------------------------------------------------
(* GET /api/tenant/maintenance/[id] and GET /api/tenant/maintenance *)

\* Mutation: the tenant's read without the isPublic filter
EveryUpdateOf(id) == SelectSeq(updates, LAMBDA r : r.requestId = id)

\* updates: { where: { isPublic: true } }
PublicUpdatesOf(id) == SelectSeq(updates, LAMBDA r : r.requestId = id /\ r.isPublic)

\* The last n rows of a sequence (orderBy createdAt desc, take n)
Latest(s, n) == IF Len(s) <= n THEN s ELSE SubSeq(s, Len(s) - n + 1, Len(s))

TenantMaintenanceGET(u, id, fault) ==
    IF u = Anon THEN Reply("GET tenant maintenance", 401, "Unauthorized")
    ELSE IF fault # "none" THEN Reply("GET tenant maintenance", 500, "Failed to fetch maintenance request")
    ELSE IF id \notin DOMAIN requests
         THEN Reply("GET tenant maintenance", 404, "Maintenance request not found")
    ELSE IF requests[id].tenantId # u THEN Reply("GET tenant maintenance", 403, "Forbidden")
    ELSE Outcome(Response("GET tenant maintenance", 200, NONE,
                          {[request |-> RequestView(id, requests[id]), updates |-> PublicUpdatesOf(id)]}),
                 Store, gateway, now)

\* Mutation: the tenant's list without the tenantId filter
TenantMaintenanceAnyone(u, status) ==
    {id \in DOMAIN requests : status # NONE => requests[id].status = status}

\* The where clause of the tenant's list
TenantMaintenanceWhere(u, status) ==
    {id \in DOMAIN requests :
        /\ requests[id].tenantId = u
        /\ status # NONE => requests[id].status = status}

TenantMaintenanceListGET(u, status, fault) ==
    IF u = Anon THEN Reply("GET tenant maintenance list", 401, "Unauthorized")
    ELSE IF fault # "none"
         THEN Reply("GET tenant maintenance list", 500, "Failed to fetch maintenance requests")
    ELSE Outcome(Response("GET tenant maintenance list", 200, NONE,
                          {[request |-> RequestView(id, requests[id]),
                            updates |-> Latest(PublicUpdatesOf(id), 3)] :
                              id \in TenantMaintenanceWhere(u, status)}),
                 Store, gateway, now)

----------------------------------------------------------------------------
(* src/app/api/landlord/maintenance/route.ts *)

\* The where clause of the landlord's list
LandlordMaintenanceWhere(u, status, priority, propertyId) ==
    {id \in DOMAIN requests :
        /\ UnitOwner(requests[id].unitId) = u
        /\ status # NONE => requests[id].status = status
        /\ priority # NONE => requests[id].priority = priority
        /\ propertyId # NONE => units[requests[id].unitId].propertyId = propertyId}

LandlordMaintenanceListGET(u, status, priority, propertyId, fault) ==
    IF u = Anon THEN Reply("GET maintenance list", 401, "Unauthorized")
    ELSE IF Role(u) # "LANDLORD" /\ Role(u) # "ADMIN" THEN Reply("GET maintenance list", 403, "Forbidden")
    ELSE IF fault # "none" THEN Reply("GET maintenance list", 500, "Failed to fetch maintenance requests")
    ELSE Outcome(Response("GET maintenance list", 200, NONE,
                          {[request |-> RequestView(id, requests[id]),
                            updates |-> Latest(UpdatesOf(id), 5)] :
                              id \in LandlordMaintenanceWhere(u, status, priority, propertyId)}),
                 Store, gateway, now)

----------------------------------------------------------------------------
(* src/lib/validators/property.ts: the unit and property schemas *)

unitStatuses == {"VACANT", "OCCUPIED", "UNDER_MAINTENANCE", "RESERVED"}

\* The issues of unitNumber: z.string().min(1, 'Unit number is required')
UnitNumberIssues(body, optional) ==
    IF body.unitNumber = NONE THEN (IF optional THEN <<>> ELSE <<<<"Required", "unitNumber">>>>)
    ELSE IF body.unitNumber = "" THEN <<<<"Unit number is required", "unitNumber">>>>
    ELSE <<>>

UnitStatusIssues(body) ==
    IF body.status \in unitStatuses \cup {NONE} THEN <<>> ELSE <<EnumIssue("status")>>

\* A unit body is a record of malformed, unitNumber and status; the other
\* fields of the schema are taken as valid.
createUnitSchema(body) ==
    SchemaResult(UnitNumberIssues(body, FALSE) \o UnitStatusIssues(body),
                 [unitNumber |-> body.unitNumber,
                  status |-> IF body.status = NONE THEN "VACANT" ELSE body.status])

\* createUnitSchema.partial(): every field optional, no default applied
updateUnitSchema(body) ==
    SchemaResult(UnitNumberIssues(body, TRUE) \o UnitStatusIssues(body),
                 [unitNumber |-> body.unitNumber, status |-> body.status])

\* The issues of name: z.string().min(1, 'Property name is required')
PropertyNameIssues(body, optional) ==
    IF body.name = NONE THEN (IF optional THEN <<>> ELSE <<<<"Required", "name">>>>)
    ELSE IF body.name = "" THEN <<<<"Property name is required", "name">>>>
    ELSE <<>>

\* A property body is a record of malformed and name; totalUnits is left
\* out of it and takes its default.
createPropertySchema(body) ==
    SchemaResult(PropertyNameIssues(body, FALSE), [name |-> body.name, totalUnits |-> 1])

updatePropertySchema(body) ==
    SchemaResult(PropertyNameIssues(body, TRUE), [name |-> body.name])

----------------------------------------------------------------------------
(* Rows that go with a deleted unit or property.  The relations of the    *)
(* schema delete the dependants of a deleted row ("cascade will delete    *)
(* units"); a relation that restricts the delete instead makes the delete *)
(* throw, which is the fault "unit.delete" or "property.delete".          *)

\* Mutation: a lease that awaits signature does not count
SignedLeaseStatuses == {"ACTIVE"}

ActiveLeaseStatuses == {"ACTIVE", "PENDING_SIGNATURE"}

\* leases: { where: { status: { in: ['ACTIVE', 'PENDING_SIGNATURE'] } } }
ActiveLeasesOf(unitId) ==
    {l \in DOMAIN leases : leases[l].unitId = unitId /\ leases[l].status \in ActiveLeaseStatuses}

Restrict(f, keep) == [x \in keep |-> f[x]]

DeleteUnits(store, gone) ==
    LET keptLeases == {l \in DOMAIN store.leases : store.leases[l].unitId \notin gone}
        keptRequests == {m \in DOMAIN store.requests : store.requests[m].unitId \notin gone}
    IN [store EXCEPT
           !.units = Restrict(@, DOMAIN @ \ gone),
           !.leases = Restrict(@, keptLeases),
           !.requests = Restrict(@, keptRequests),
           !.updates = SelectSeq(@, LAMBDA r : r.requestId \in keptRequests),
           !.payments = SelectSeq(@, LAMBDA p : p.leaseId \in keptLeases)]

----------------------------------------------------------------------------
(* /api/landlord/properties/[id]/units and .../units/[unitId] *)

\* Mutation: the property is looked up and its owner not compared
verifyExistence(propertyId, u) ==
    IF propertyId \notin DOMAIN properties THEN [error |-> "Property not found", status |-> 404]
    ELSE [error |-> NONE, status |-> 200]

\* verifyOwnership, and the same check written out in the other handlers
verifyOwnership(propertyId, u) ==
    IF propertyId \notin DOMAIN properties THEN [error |-> "Property not found", status |-> 404]
    ELSE IF properties[propertyId].ownerId # u /\ Role(u) # "ADMIN"
         THEN [error |-> "Forbidden", status |-> 403]
    ELSE [error |-> NONE, status |-> 200]

UnitView(id) == [id |-> id] @@ units[id]

\* Mutation: the lookup of the unit number finds nothing
UnitNumberedNowhere(propertyId, unitNumber) ==
    {}

\* where: { propertyId_unitNumber: { propertyId, unitNumber } }
UnitNumbered(propertyId, unitNumber) ==
    {x \in DOMAIN units : units[x].propertyId = propertyId /\ units[x].unitNumber = unitNumber}

\* GET /api/landlord/properties/[id]/units
UnitsGET(u, pid, fault) ==
    LET ownership == verifyOwnership(pid, u) IN
    IF u = Anon THEN Reply("GET units", 401, "Unauthorized")
    ELSE IF fault # "none" THEN Reply("GET units", 500, "Failed to fetch units")
    ELSE IF ownership.status # 200 THEN Reply("GET units", ownership.status, ownership.error)
    ELSE Outcome(Response("GET units", 200, NONE,
                          {UnitView(x) : x \in {y \in DOMAIN units : units[y].propertyId = pid}}),
                 Store, gateway, now)

\* The handler after the ownership check and validation: unit.create, then
\* property.update of totalUnits, outside any transaction
UnitsCreate(pid, data, fault) ==
    LET failed == Reply("POST units", 500, "Failed to create unit") IN
    IF fault = "unit.findUnique" THEN failed
    ELSE IF UnitNumbered(pid, data.unitNumber) # {}
         THEN Reply("POST units", 409, "A unit with this number already exists")
    ELSE IF fault = "unit.create" THEN failed
    ELSE LET id == NewId(UnitPool, units)
             row == [propertyId |-> pid, unitNumber |-> data.unitNumber, status |-> data.status]
             created == [Store EXCEPT !.units = (id :> row) @@ units]
             counted == [created EXCEPT !.properties[pid].totalUnits = @ + 1]
         IN
         IF fault = "property.update" THEN Outcome(failed.resp, created, gateway, now)
         ELSE Outcome(Response("POST units", 201, NONE, {[id |-> id] @@ row}), counted, gateway, now)

\* Mutation: the body is validated before the property is looked up
UnitsPostBodyFirst(u, pid, body, fault) ==
    LET failed == Reply("POST units", 500, "Failed to create unit")
        ownership == verifyOwnership(pid, u)
        result == createUnitSchema(body)
    IN
    IF u = Anon THEN Reply("POST units", 401, "Unauthorized")
    ELSE IF body.malformed THEN failed
    ELSE IF ~result.success THEN ValidationError("POST units", result)
    ELSE IF fault = "property.findUnique" THEN failed
    ELSE IF ownership.status # 200 THEN Reply("POST units", ownership.status, ownership.error)
    ELSE UnitsCreate(pid, result.data, fault)

\* POST /api/landlord/properties/[id]/units
UnitsPOST(u, pid, body, fault) ==
    LET failed == Reply("POST units", 500, "Failed to create unit")
        ownership == verifyOwnership(pid, u)
    IN
    IF u = Anon THEN Reply("POST units", 401, "Unauthorized")
    ELSE IF fault = "property.findUnique" THEN failed
    ELSE IF ownership.status # 200 THEN Reply("POST units", ownership.status, ownership.error)
    ELSE IF body.malformed THEN failed
    ELSE LET result == createUnitSchema(body) IN
    IF ~result.success THEN ValidationError("POST units", result)
    ELSE UnitsCreate(pid, result.data, fault)

\* Mutation: the unit is taken whatever its property
BelongsToAny(unitId, pid) ==
    unitId \in DOMAIN units

\* unit.propertyId === params.id
BelongsTo(unitId, pid) ==
    units[unitId].propertyId = pid

\* GET /api/landlord/properties/[id]/units/[unitId]
UnitGET(u, pid, unitId, fault) ==
    LET ownership == verifyOwnership(pid, u) IN
    IF u = Anon THEN Reply("GET unit", 401, "Unauthorized")
    ELSE IF fault # "none" THEN Reply("GET unit", 500, "Failed to fetch unit")
    ELSE IF ownership.status # 200 THEN Reply("GET unit", ownership.status, ownership.error)
    ELSE IF unitId \notin DOMAIN units THEN Reply("GET unit", 404, "Unit not found")
    ELSE IF ~BelongsTo(unitId, pid)
         THEN Reply("GET unit", 400, "Unit does not belong to this property")
    ELSE Outcome(Response("GET unit", 200, NONE, {UnitView(unitId)}), Store, gateway, now)

\* PUT /api/landlord/properties/[id]/units/[unitId]
UnitPUT(u, pid, unitId, body, fault) ==
    LET failed == Reply("PUT unit", 500, "Failed to update unit")
        ownership == verifyOwnership(pid, u)
    IN
    IF u = Anon THEN Reply("PUT unit", 401, "Unauthorized")
    ELSE IF fault = "property.findUnique" THEN failed
    ELSE IF ownership.status # 200 THEN Reply("PUT unit", ownership.status, ownership.error)
    ELSE IF fault = "unit.findUnique" THEN failed
    ELSE IF unitId \notin DOMAIN units THEN Reply("PUT unit", 404, "Unit not found")
    ELSE IF ~BelongsTo(unitId, pid)
         THEN Reply("PUT unit", 400, "Unit does not belong to this property")
    ELSE IF body.malformed THEN failed
    ELSE LET result == updateUnitSchema(body) IN
    IF ~result.success THEN ValidationError("PUT unit", result)
    ELSE LET data == result.data
             renames == data.unitNumber # NONE /\ data.unitNumber # units[unitId].unitNumber
             row == [units[unitId] EXCEPT
                        !.unitNumber = IF data.unitNumber # NONE THEN data.unitNumber ELSE @,
                        !.status = IF data.status # NONE THEN data.status ELSE @]
         IN
         IF renames /\ UnitNumbered(pid, data.unitNumber) # {}
         THEN Reply("PUT unit", 409, "A unit with this number already exists")
         ELSE IF fault = "unit.update" THEN failed
         ELSE Outcome(Response("PUT unit", 200, NONE, {[id |-> unitId] @@ row}),
                      [Store EXCEPT !.units[unitId] = row], gateway, now)

\* DELETE /api/landlord/properties/[id]/units/[unitId]: unit.delete, then
\* property.update of totalUnits, outside any transaction
UnitDELETE(u, pid, unitId, fault) ==
    LET failed == Reply("DELETE unit", 500, "Failed to delete unit")
        ownership == verifyOwnership(pid, u)
    IN
    IF u = Anon THEN Reply("DELETE unit", 401, "Unauthorized")
    ELSE IF fault = "property.findUnique" THEN failed
    ELSE IF ownership.status # 200 THEN Reply("DELETE unit", ownership.status, ownership.error)
    ELSE IF fault = "unit.findUnique" THEN failed
    ELSE IF unitId \notin DOMAIN units THEN Reply("DELETE unit", 404, "Unit not found")
    ELSE IF ~BelongsTo(unitId, pid)
         THEN Reply("DELETE unit", 400, "Unit does not belong to this property")
    ELSE IF ActiveLeasesOf(unitId) # {}
         THEN Reply("DELETE unit", 400,
                    "Cannot delete unit with active leases. Please terminate the lease first.")
    ELSE IF fault = "unit.delete" THEN failed
    ELSE LET deleted == DeleteUnits(Store, {unitId})
             counted == [deleted EXCEPT !.properties[pid].totalUnits = @ - 1]
         IN
         IF fault = "property.update" THEN Outcome(failed.resp, deleted, gateway, now)
         ELSE Outcome(Response("DELETE unit", 200, NONE, NoData), counted, gateway, now)

----------------------------------------------------------------------------
(* /api/landlord/properties/[id] and /api/landlord/properties *)

UnitsIn(pid) == {x \in DOMAIN units : units[x].propertyId = pid}

PropertyView(pid, row) == [id |-> pid, units |-> {UnitView(x) : x \in UnitsIn(pid)}] @@ row

\* GET /api/landlord/properties/[id]
PropertyGET(u, pid, fault) ==
    LET ownership == verifyOwnership(pid, u) IN
    IF u = Anon THEN Reply("GET property", 401, "Unauthorized")
    ELSE IF fault # "none" THEN Reply("GET property", 500, "Failed to fetch property")
    ELSE IF ownership.status # 200 THEN Reply("GET property", ownership.status, ownership.error)
    ELSE Outcome(Response("GET property", 200, NONE, {PropertyView(pid, properties[pid])}),
                 Store, gateway, now)

\* PUT /api/landlord/properties/[id]
PropertyPUT(u, pid, body, fault) ==
    LET failed == Reply("PUT property", 500, "Failed to update property")
        ownership == verifyOwnership(pid, u)
    IN
    IF u = Anon THEN Reply("PUT property", 401, "Unauthorized")
    ELSE IF fault = "property.findUnique" THEN failed
    ELSE IF ownership.status # 200 THEN Reply("PUT property", ownership.status, ownership.error)
    ELSE IF body.malformed THEN failed
    ELSE LET result == updatePropertySchema(body) IN
    IF ~result.success THEN ValidationError("PUT property", result)
    ELSE IF fault = "property.update" THEN failed
    ELSE LET row == [properties[pid] EXCEPT
                        !.name = IF result.data.name # NONE THEN result.data.name ELSE @]
         IN Outcome(Response("PUT property", 200, NONE, {PropertyView(pid, row)}),
                    [Store EXCEPT !.properties[pid] = row], gateway, now)

\* existingProperty.units.some((unit) => unit.leases.length > 0)
hasActiveLeases(pid) == \E x \in UnitsIn(pid) : ActiveLeasesOf(x) # {}

\* DELETE /api/landlord/properties/[id]
PropertyDELETE(u, pid, fault) ==
    LET failed == Reply("DELETE property", 500, "Failed to delete property")
        ownership == verifyOwnership(pid, u)
    IN
    IF u = Anon THEN Reply("DELETE property", 401, "Unauthorized")
    ELSE IF fault = "property.findUnique" THEN failed
    ELSE IF ownership.status # 200 THEN Reply("DELETE property", ownership.status, ownership.error)
    ELSE IF hasActiveLeases(pid)
         THEN Reply("DELETE property", 400,
                    "Cannot delete property with active leases. Please terminate all leases first.")
    ELSE IF fault = "property.delete" THEN failed
    ELSE LET deleted == DeleteUnits(Store, UnitsIn(pid)) IN
         Outcome(Response("DELETE property", 200, NONE, NoData),
                 [deleted EXCEPT !.properties = Restrict(@, DOMAIN @ \ {pid})], gateway, now)

IsLandlordRole(u) == Role(u) = "LANDLORD" \/ Role(u) = "ADMIN"

\* GET /api/landlord/properties
PropertiesGET(u, fault) ==
    IF u = Anon THEN Reply("GET properties", 401, "Unauthorized")
    ELSE IF ~IsLandlordRole(u) THEN Reply("GET properties", 403, "Forbidden")
    ELSE IF fault # "none" THEN Reply("GET properties", 500, "Failed to fetch properties")
    ELSE Outcome(Response("GET properties", 200, NONE,
                          {PropertyView(p, properties[p]) :
                              p \in {q \in DOMAIN properties : properties[q].ownerId = u}}),
                 Store, gateway, now)

\* POST /api/landlord/properties
PropertiesPOST(u, body, fault) ==
    LET failed == Reply("POST properties", 500, "Failed to create property") IN
    IF u = Anon THEN Reply("POST properties", 401, "Unauthorized")
    ELSE IF ~IsLandlordRole(u) THEN Reply("POST properties", 403, "Forbidden")
    ELSE IF body.malformed THEN failed
    ELSE LET result == createPropertySchema(body) IN
    IF ~result.success THEN ValidationError("POST properties", result)
    ELSE IF fault = "property.create" THEN failed
    ELSE LET id == NewId(PropertyPool, properties)
             row == [ownerId |-> u, name |-> result.data.name, totalUnits |-> result.data.totalUnits]
         IN Outcome(Response("POST properties", 201, NONE, {[id |-> id, units |-> {}] @@ row}),
                    [Store EXCEPT !.properties = (id :> row) @@ properties], gateway, now)

----------------------------------------------------------------------------
(* src/lib/validators/payment.ts *)

paymentTypes == {"RENT", "DEPOSIT", "LATE_FEE", "UTILITY", "MAINTENANCE", "OTHER"}

\* A payment body is a record of malformed, leaseId, tenantId, type and
\* amount; method and the optional fields are taken as valid.
LeaseIdIssues(body) ==
    IF body.leaseId = "" THEN <<<<"Lease is required", "leaseId">>>> ELSE <<>>

createPaymentSchema(body) ==
    SchemaResult(
        LeaseIdIssues(body)
        \o (IF body.type \in paymentTypes THEN <<>> ELSE <<<<"Please select a payment type", "type">>>>)
        \o (IF body.amount >= 1 THEN <<>> ELSE <<<<"Amount must be greater than 0", "amount">>>>),
        [leaseId |-> body.leaseId, type |-> body.type, amount |-> body.amount])

recordManualPaymentSchema(body) ==
    SchemaResult(
        LeaseIdIssues(body)
        \o (IF body.tenantId = "" THEN <<<<"Tenant is required", "tenantId">>>> ELSE <<>>)
        \o (IF body.type \in paymentTypes THEN <<>> ELSE <<EnumIssue("type")>>)
        \o (IF body.amount >= 1 THEN <<>>
            ELSE <<<<"Number must be greater than or equal to 0.01", "amount">>>>),
        [leaseId |-> body.leaseId, tenantId |-> body.tenantId, type |-> body.type, amount |-> body.amount])

----------------------------------------------------------------------------
(* src/lib/stripe/server.ts: the gateway holds the customers and the      *)
(* charge intents created so far                                          *)

CustomerPool == <<"cus_1", "cus_2", "cus_3", "cus_4", "cus_5">>

\* stripe.customers.create
createStripeCustomer(gw, userId) ==
    LET free == {i \in 1..Len(CustomerPool) : \A c \in gw.customers : c.id # CustomerPool[i]}
        id == CustomerPool[CHOOSE i \in free : \A j \in free : i <= j]
    IN [customer |-> id, gateway |-> [gw EXCEPT !.customers = @ \cup {[id |-> id, userId |-> userId, deleted |-> FALSE]}]]

\* stripe.customers.retrieve returns a customer that is not deleted; it
\* throws for an id the gateway does not know
Retrieved(gw, existingCustomerId, fault) ==
    /\ existingCustomerId # NONE
    /\ fault # "customers.retrieve"
    /\ \E c \in gw.customers : c.id = existingCustomerId /\ ~c.deleted

\* getOrCreateStripeCustomer: a retrieve that throws is swallowed and a new
\* customer created
getOrCreateStripeCustomer(gw, userId, existingCustomerId, fault) ==
    IF Retrieved(gw, existingCustomerId, fault)
    THEN [customer |-> existingCustomerId, gateway |-> gw]
    ELSE createStripeCustomer(gw, userId)

\* Mutation: the intent is created twice and the second one is returned
createPaymentIntentTwice(gw, amount, customerId, metadata) ==
    LET first == [id |-> Len(gw.intents) + 1, client_secret |-> <<"secret", Len(gw.intents) + 1>>,
                  status |-> "requires_payment_method", amount |-> amount * 100, customer |-> customerId, metadata |-> metadata]
        intent == [first EXCEPT !.id = Len(gw.intents) + 2,
                                !.client_secret = <<"secret", Len(gw.intents) + 2>>]
    IN [intent |-> intent, gateway |-> [gw EXCEPT !.intents = Append(Append(@, first), intent)]]

\* createPaymentIntent: stripe.paymentIntents.create
createPaymentIntent(gw, amount, customerId, metadata) ==
    LET intent == [id |-> Len(gw.intents) + 1, client_secret |-> <<"secret", Len(gw.intents) + 1>>,
                   status |-> "requires_payment_method", amount |-> amount * 100, customer |-> customerId, metadata |-> metadata]
    IN [intent |-> intent, gateway |-> [gw EXCEPT !.intents = Append(@, intent)]]

----------------------------------------------------------------------------
(* /api/tenant/payments and /api/tenant/lease *)

\* The where clause of the tenant's payment list
TenantPaymentWhere(u, status, leaseId) ==
    SelectSeq(payments, LAMBDA p :
        /\ p.userId = u
        /\ status # NONE => p.status = status
        /\ leaseId # NONE => p.leaseId = leaseId)

\* GET /api/tenant/payments
TenantPaymentsGET(u, status, leaseId, fault) ==
    IF u = Anon THEN Reply("GET tenant payments", 401, "Unauthorized")
    ELSE IF fault # "none" THEN Reply("GET tenant payments", 500, "Failed to fetch payments")
    ELSE Outcome(Response("GET tenant payments", 200, NONE,
                          Range(TenantPaymentWhere(u, status, leaseId))),
                 Store, gateway, now)

\* POST /api/tenant/payments: the customer, the user row, the charge intent
\* and the payment row are written one after the other, outside any
\* transaction
TenantPaymentsPOST(u, body, fault) ==
    LET failed == Reply("POST tenant payments", 500, "Failed to create payment") IN
    IF u = Anon THEN Reply("POST tenant payments", 401, "Unauthorized")
    ELSE IF body.malformed THEN failed
    ELSE LET result == createPaymentSchema(body) IN
    IF ~result.success THEN ValidationError("POST tenant payments", result)
    ELSE LET data == result.data IN
    IF fault = "lease.findUnique" THEN failed
    ELSE IF data.leaseId \notin DOMAIN leases THEN Reply("POST tenant payments", 404, "Lease not found")
    ELSE IF leases[data.leaseId].tenantId # u THEN Reply("POST tenant payments", 403, "Forbidden")
    ELSE IF fault = "user.findUnique" THEN failed
    ELSE IF u \notin DOMAIN users THEN Reply("POST tenant payments", 404, "User not found")
    ELSE IF fault = "customers.create" /\ ~Retrieved(gateway, users[u].stripeCustomerId, fault) THEN failed
    ELSE LET got == getOrCreateStripeCustomer(gateway, u, users[u].stripeCustomerId, fault)
             saved == IF users[u].stripeCustomerId = NONE
                      THEN [Store EXCEPT !.users[u].stripeCustomerId = got.customer] ELSE Store
             made == createPaymentIntent(got.gateway, data.amount, got.customer,
                                         [leaseId |-> data.leaseId, userId |-> u, type |-> data.type])
             row == [userId |-> u, leaseId |-> data.leaseId, type |-> data.type, status |-> "PENDING",
                     amount |-> data.amount, stripePaymentIntentId |-> made.intent.id]
         IN
         IF fault = "user.update" /\ users[u].stripeCustomerId = NONE
         THEN Outcome(failed.resp, Store, got.gateway, now)
         ELSE IF fault = "paymentIntents.create" THEN Outcome(failed.resp, saved, got.gateway, now)
         ELSE IF fault = "payment.create" THEN Outcome(failed.resp, saved, made.gateway, now)
         ELSE Outcome(Response("POST tenant payments", 201, NONE,
                               {[payment |-> row, clientSecret |-> made.intent.client_secret]}),
                      [saved EXCEPT !.payments = Append(@, row)], made.gateway, now)

----------------------------------------------------------------------------
(* /api/tenant/payment-methods *)

\* createSetupIntent: stripe.setupIntents.create
createSetupIntent(gw, customerId) ==
    LET setup == [client_secret |-> <<"seti", Len(gw.setups) + 1>>, customer |-> customerId]
    IN [setup |-> setup, gateway |-> [gw EXCEPT !.setups = Append(@, setup)]]

\* POST /api/tenant/payment-methods: the customer, the user row and the
\* setup intent, one after the other
PaymentMethodsPOST(u, fault) ==
    LET failed == Reply("POST payment methods", 500, "Failed to create setup intent") IN
    IF u = Anon THEN Reply("POST payment methods", 401, "Unauthorized")
    ELSE IF fault = "user.findUnique" THEN failed
    ELSE IF u \notin DOMAIN users THEN Reply("POST payment methods", 404, "User not found")
    ELSE IF fault = "customers.create" /\ ~Retrieved(gateway, users[u].stripeCustomerId, fault) THEN failed
    ELSE LET got == getOrCreateStripeCustomer(gateway, u, users[u].stripeCustomerId, fault)
             saved == IF users[u].stripeCustomerId = NONE
                      THEN [Store EXCEPT !.users[u].stripeCustomerId = got.customer] ELSE Store
             made == createSetupIntent(got.gateway, got.customer)
         IN
         IF fault = "user.update" /\ users[u].stripeCustomerId = NONE
         THEN Outcome(failed.resp, Store, got.gateway, now)
         ELSE IF fault = "setupIntents.create" THEN Outcome(failed.resp, saved, got.gateway, now)
         ELSE Outcome(Response("POST payment methods", 200, NONE, {[clientSecret |-> made.setup.client_secret]}),
                      saved, made.gateway, now)

LeaseView(id) == [id |-> id, propertyId |-> units[leases[id].unitId].propertyId] @@ leases[id]

\* GET /api/tenant/lease: the session user's ACTIVE lease
TenantLeaseGET(u, fault) ==
    IF u = Anon THEN Reply("GET tenant lease", 401, "Unauthorized")
    ELSE IF fault # "none" THEN Reply("GET tenant lease", 500, "Failed to fetch lease")
    ELSE Outcome(Response("GET tenant lease", 200, NONE,
                          {LeaseView(l) : l \in {k \in DOMAIN leases :
                              leases[k].tenantId = u /\ leases[k].status = "ACTIVE"}}),
                 Store, gateway, now)

----------------------------------------------------------------------------
(* /api/landlord/payments *)

LeaseOwner(leaseId) == UnitOwner(leases[leaseId].unitId)

\* The where clause of the landlord's payment list: the propertyId filter is
\* added to the owner filter
LandlordPaymentWhere(u, status, propertyId) ==
    SelectSeq(payments, LAMBDA p :
        /\ LeaseOwner(p.leaseId) = u
        /\ status # NONE => p.status = status
        /\ propertyId # NONE => units[leases[p.leaseId].unitId].propertyId = propertyId)

\* GET /api/landlord/payments
LandlordPaymentsGET(u, status, propertyId, fault) ==
    IF u = Anon THEN Reply("GET payments", 401, "Unauthorized")
    ELSE IF ~IsLandlordRole(u) THEN Reply("GET payments", 403, "Forbidden")
    ELSE IF fault # "none" THEN Reply("GET payments", 500, "Failed to fetch payments")
    ELSE Outcome(Response("GET payments", 200, NONE,
                          Range(LandlordPaymentWhere(u, status, propertyId))),
                 Store, gateway, now)

\* Mutation: the manual payment is recorded as PENDING
ManualPaymentRowPending(data) ==
    [userId |-> data.tenantId, leaseId |-> data.leaseId, type |-> data.type,
     status |-> "PENDING", amount |-> data.amount, stripePaymentIntentId |-> NULL]

\* data of payment.create in the manual payment
ManualPaymentRow(data) ==
    [userId |-> data.tenantId, leaseId |-> data.leaseId, type |-> data.type,
     status |-> "COMPLETED", amount |-> data.amount, stripePaymentIntentId |-> NULL]

\* POST /api/landlord/payments: record a manual payment
LandlordPaymentsPOST(u, body, fault) ==
    LET failed == Reply("POST payments", 500, "Failed to record payment") IN
    IF u = Anon THEN Reply("POST payments", 401, "Unauthorized")
    ELSE IF ~IsLandlordRole(u) THEN Reply("POST payments", 403, "Forbidden")
    ELSE IF body.malformed THEN failed
    ELSE LET result == recordManualPaymentSchema(body) IN
    IF ~result.success THEN ValidationError("POST payments", result)
    ELSE LET data == result.data IN
    IF fault = "lease.findUnique" THEN failed
    ELSE IF data.leaseId \notin DOMAIN leases THEN Reply("POST payments", 404, "Lease not found")
    ELSE IF LeaseOwner(data.leaseId) # u /\ Role(u) # "ADMIN" THEN Reply("POST payments", 403, "Forbidden")
    ELSE IF fault = "payment.create" THEN failed
    ELSE LET row == ManualPaymentRow(data)
         IN Outcome(Response("POST payments", 201, NONE, {row}),
                    [Store EXCEPT !.payments = Append(@, row)], gateway, now)

----------------------------------------------------------------------------
(* /api/landlord/tenants and /api/landlord/tenants/[id] *)

\* properties.map((p) => p.id) of the properties the session user owns
OwnedPropertyIds(u) == {p \in DOMAIN properties : properties[p].ownerId = u}

\* whereClause of the tenants list: a propertyId parameter replaces the
\* restriction to the owned properties
TenantsWhere(u, propertyId, leaseStatus) ==
    {l \in DOMAIN leases :
        /\ IF propertyId # NONE THEN units[leases[l].unitId].propertyId = propertyId
           ELSE units[leases[l].unitId].propertyId \in OwnedPropertyIds(u)
        /\ leaseStatus # NONE => leases[l].status = leaseStatus}

TenantLeaseRow(l) ==
    [tenant |-> leases[l].tenantId, lease |-> LeaseView(l),
     lastPayment |-> Latest(SelectSeq(payments, LAMBDA p : p.leaseId = l), 1)]

\* GET /api/landlord/tenants
LandlordTenantsGET(u, propertyId, leaseStatus, fault) ==
    IF u = Anon THEN Reply("GET tenants", 401, "Unauthorized")
    ELSE IF fault # "none" THEN Reply("GET tenants", 500, "Failed to fetch tenants")
    ELSE Outcome(Response("GET tenants", 200, NONE,
                          {TenantLeaseRow(l) : l \in TenantsWhere(u, propertyId, leaseStatus)}),
                 Store, gateway, now)

\* tenantLeases: { where: { unit: { propertyId: { in: propertyIds } } } }
TenantLeasesFor(u, id) ==
    {l \in DOMAIN leases :
        leases[l].tenantId = id /\ units[leases[l].unitId].propertyId \in OwnedPropertyIds(u)}

\* maintenanceRequests: { where: { unit: { propertyId: { in: propertyIds } } } }
TenantRequestsFor(u, id) ==
    {m \in DOMAIN requests :
        requests[m].tenantId = id /\ units[requests[m].unitId].propertyId \in OwnedPropertyIds(u)}

\* GET /api/landlord/tenants/[id]
LandlordTenantGET(u, id, fault) ==
    IF u = Anon THEN Reply("GET tenant", 401, "Unauthorized")
    ELSE IF fault # "none" THEN Reply("GET tenant", 500, "Failed to fetch tenant")
    ELSE IF id \notin DOMAIN users THEN Reply("GET tenant", 404, "Tenant not found")
    ELSE IF TenantLeasesFor(u, id) = {} THEN Reply("GET tenant", 404, "Tenant not found")
    ELSE Outcome(Response("GET tenant", 200, NONE,
                          {[tenant |-> id,
                            leases |-> {TenantLeaseRow(l) : l \in TenantLeasesFor(u, id)},
                            maintenanceRequests |->
                                {RequestView(m, requests[m]) : m \in TenantRequestsFor(u, id)}]}),
                 Store, gateway, now)

----------------------------------------------------------------------------
(* src/app/api/onboarding/submit/route.ts *)

LeasePool == <<"LS1", "LS2", "LS3", "LS4", "LS5", "LS6">>
leaseTerms == {"6", "12", "18", "24"}

\* An onboarding body is a record of malformed, firstName, ssnLast4,
\* dateOfBirth, unitId, leaseTerm and signature; the other fields of the
\* schema are taken as valid.  The schema gives no messages of its own.
completeOnboardingSchema(body) ==
    SchemaResult(
        (IF body.firstName = NONE THEN <<<<"Required", "firstName">>>>
         ELSE IF body.firstName = "" THEN <<<<"String must contain at least 1 character(s)", "firstName">>>>
         ELSE <<>>)
        \o (IF body.ssnLast4 = NONE THEN <<<<"Required", "ssnLast4">>>>
            ELSE IF body.ssnLast4 # "1234" THEN <<<<"String must contain exactly 4 character(s)", "ssnLast4">>>>
            ELSE <<>>)
        \o (IF body.unitId = NONE THEN <<<<"Required", "unitId">>>>
            ELSE IF body.unitId = "" THEN <<<<"String must contain at least 1 character(s)", "unitId">>>>
            ELSE <<>>)
        \o (IF body.leaseTerm \in leaseTerms THEN <<>> ELSE <<EnumIssue("leaseTerm")>>)
        \o (IF body.signature = NONE THEN <<<<"Required", "signature">>>>
            ELSE IF body.signature = "" THEN <<<<"String must contain at least 1 character(s)", "signature">>>>
            ELSE <<>>),
        [unitId |-> body.unitId, dateOfBirth |-> body.dateOfBirth, leaseTerm |-> body.leaseTerm])

\* Mutation: a unit counts as available unless it is occupied
AvailableUnlessOccupied(unit) == unit.status # "OCCUPIED"

\* unit.status !== 'VACANT' refuses the application
Available(unit) == unit.status = "VACANT"

\* The handler up to the start of its transaction: the session, the body
\* and the look at the unit.  `passed` says that the transaction is next.
OnboardingCheck(u, body, fault) ==
    LET failed == Reply("POST onboarding", 500, "Failed to submit application")
        stop(out) == [passed |-> FALSE, out |-> out, data |-> [unitId |-> NONE]]
    IN
    IF u = Anon THEN stop(Reply("POST onboarding", 401, "Unauthorized"))
    ELSE IF body.malformed THEN stop(failed)
    ELSE LET result == completeOnboardingSchema(body) IN
    IF ~result.success THEN stop(ValidationError("POST onboarding", result))
    ELSE IF fault = "unit.findUnique" THEN stop(failed)
    ELSE IF result.data.unitId \notin DOMAIN units THEN stop(Reply("POST onboarding", 404, "Unit not found"))
    ELSE IF ~Available(units[result.data.unitId])
         THEN stop(Reply("POST onboarding", 409, "This unit is no longer available"))
    ELSE [passed |-> TRUE, out |-> failed, data |-> result.data]

\* Mutation: the four writes outside a transaction, each kept when a later
\* one throws
OnboardingWithoutRollback(u, data, fault) ==
    LET failed == Reply("POST onboarding", 500, "Failed to submit application")
        id == NewId(LeasePool, leases)
        lease == [tenantId |-> u, unitId |-> data.unitId, status |-> "PENDING_SIGNATURE"]
        entry == [userId |-> u, action |-> "TENANT_ONBOARDING_COMPLETED", entityType |-> "Lease",
                  entityId |-> id, unitId |-> data.unitId]
        first == [Store EXCEPT !.users[u].status = "ACTIVE"]
        second == [first EXCEPT !.leases = (id :> lease) @@ leases]
        third == [second EXCEPT !.units[data.unitId].status = "RESERVED"]
    IN
    IF fault = "user.update" \/ data.dateOfBirth = "BOGUS" THEN failed
    ELSE IF fault = "lease.create" THEN Outcome(failed.resp, first, gateway, now)
    ELSE IF fault = "unit.update" THEN Outcome(failed.resp, second, gateway, now)
    ELSE IF fault = "auditLog.create" THEN Outcome(failed.resp, third, gateway, now)
    ELSE Outcome(Response("POST onboarding", 201, NONE, {[leaseId |-> id]}),
                 [third EXCEPT !.audit = Append(@, entry)], gateway, now)

\* Mutation: the transaction reads the unit again and refuses one that is
\* no longer available
OnboardingTransactionRechecked(u, data, fault) ==
    IF ~Available(units[data.unitId])
    THEN Reply("POST onboarding", 409, "This unit is no longer available")
    ELSE OnboardingWithoutRollback(u, data, fault)

\* prisma.$transaction: the user, the lease, the unit and the audit row are
\* written to the store as it is when the transaction runs; a write that
\* throws undoes the ones before it.  new Date(dateOfBirth) of a text that is
\* no date is refused by user.update, and unit.update throws when the unit
\* is gone.
OnboardingTransaction(u, data, fault) ==
    LET failed == Reply("POST onboarding", 500, "Failed to submit application")
        id == NewId(LeasePool, leases)
        lease == [tenantId |-> u, unitId |-> data.unitId, status |-> "PENDING_SIGNATURE"]
        entry == [userId |-> u, action |-> "TENANT_ONBOARDING_COMPLETED", entityType |-> "Lease",
                  entityId |-> id, unitId |-> data.unitId]
    IN
    IF fault \in {"user.update", "lease.create", "unit.update", "auditLog.create"} THEN failed
    ELSE IF u \notin DOMAIN users \/ data.dateOfBirth = "BOGUS" THEN failed
    ELSE IF data.unitId \notin DOMAIN units THEN failed
    ELSE Outcome(Response("POST onboarding", 201, NONE, {[leaseId |-> id]}),
                 [Store EXCEPT !.users[u].status = "ACTIVE",
                               !.leases = (id :> lease) @@ leases,
                               !.units[data.unitId].status = "RESERVED",
                               !.audit = Append(@, entry)],
                 gateway, now)

\* POST /api/onboarding/submit, run with no other handler in between
OnboardingPOST(u, body, fault) ==
    LET check == OnboardingCheck(u, body, fault) IN
    IF check.passed THEN OnboardingTransaction(u, check.data, fault) ELSE check.out

----------------------------------------------------------------------------
(* POST /api/tenant/maintenance *)

RequestPool == <<"M1", "M2", "M3", "M4", "M5", "M6">>
maintenanceCategories ==
    {"PLUMBING", "ELECTRICAL", "HVAC", "APPLIANCE", "STRUCTURAL", "PEST_CONTROL", "LANDSCAPING", "CLEANING",
     "SECURITY", "OTHER"}

\* The texts the bodies use for title and description, with their lengths
Length(text) ==
    CASE text = "" -> 0
      [] text = "Leak" -> 4
      [] text = "Tap drips" -> 9
      [] text = "Tap drips!" -> 10
      [] text = "The kitchen tap drips" -> 21

\* createMaintenanceRequestSchema: a body is a record of malformed, title,
\* description, category and priority
createMaintenanceRequestSchema(body) ==
    SchemaResult(
        (IF body.title = NONE THEN <<<<"Required", "title">>>>
         ELSE IF Length(body.title) < 1 THEN <<<<"Title is required", "title">>>>
         ELSE <<>>)
        \o (IF body.description = NONE THEN <<<<"Required", "description">>>>
            ELSE IF Length(body.description) < 10
                 THEN <<<<"Please provide a detailed description", "description">>>>
            ELSE <<>>)
        \o (IF body.category \in maintenanceCategories THEN <<>>
            ELSE <<<<"Please select a category", "category">>>>)
        \o (IF body.priority \in maintenancePriorities \cup {NONE} THEN <<>> ELSE <<EnumIssue("priority")>>),
        [title |-> body.title, description |-> body.description, category |-> body.category,
         priority |-> IF body.priority = NONE THEN "MEDIUM" ELSE body.priority])

\* Mutation: the lease lookup without the status
LeasesOfTenant(u) == {l \in DOMAIN leases : leases[l].tenantId = u}

\* where: { tenantId: session.user.id, status: 'ACTIVE' }
ActiveLeasesOfTenant(u) == {l \in DOMAIN leases : leases[l].tenantId = u /\ leases[l].status = "ACTIVE"}

\* The handler after validation: the user's ACTIVE lease is looked up and
\* the request is created on its unit.  findFirst has no order: `pick` is
\* the ACTIVE lease of the user that it returns.
TenantMaintenanceCreate(u, data, pick, fault) ==
    LET failed == Reply("POST tenant maintenance", 500, "Failed to create maintenance request") IN
    IF fault = "lease.findFirst" THEN failed
    ELSE IF ActiveLeasesOfTenant(u) = {} THEN Reply("POST tenant maintenance", 400, "No active lease found")
    ELSE IF fault = "maintenanceRequest.create" THEN failed
    ELSE LET id == NewId(RequestPool, requests)
             row == [tenantId |-> u, unitId |-> leases[pick].unitId, status |-> "SUBMITTED",
                     priority |-> data.priority, acknowledgedAt |-> NULL, completedAt |-> NULL]
         IN Outcome(Response("POST tenant maintenance", 201, NONE, {RequestView(id, row)}),
                    [Store EXCEPT !.requests = (id :> row) @@ requests], gateway, now)

\* Mutation: the lease is looked up before the body is validated
TenantMaintenanceLeaseFirst(u, body, pick, fault) ==
    LET result == createMaintenanceRequestSchema(body) IN
    IF u = Anon THEN Reply("POST tenant maintenance", 401, "Unauthorized")
    ELSE IF body.malformed
         THEN Reply("POST tenant maintenance", 500, "Failed to create maintenance request")
    ELSE IF ActiveLeasesOfTenant(u) = {}
         THEN Reply("POST tenant maintenance", 400, <<"No active lease found", "lease">>)
    ELSE IF ~result.success THEN ValidationError("POST tenant maintenance", result)
    ELSE TenantMaintenanceCreate(u, result.data, pick, fault)

\* POST /api/tenant/maintenance
TenantMaintenancePOST(u, body, pick, fault) ==
    IF u = Anon THEN Reply("POST tenant maintenance", 401, "Unauthorized")
    ELSE IF body.malformed
         THEN Reply("POST tenant maintenance", 500, "Failed to create maintenance request")
    ELSE LET result == createMaintenanceRequestSchema(body) IN
    IF ~result.success THEN ValidationError("POST tenant maintenance", result)
    ELSE TenantMaintenanceCreate(u, result.data, pick, fault)

----------------------------------------------------------------------------
(* The store the handlers start from: two landlords with one property and *)
(* one unit each, a tenant with a lease in each unit, one request filed by *)
(* the first tenant, and an administrator.                                 *)

\* useState(0), useState({}), useState(false) of OnboardingProvider;
\* useState(data.agreedToTerms || false), useState(false) of ReviewSignStep
WizardStart ==
    [currentStep |-> 0,
     data |-> [firstName |-> NONE, ssnLast4 |-> NONE, dateOfBirth |-> NONE, emergencyContactName |-> NONE,
               employmentStatus |-> NONE, unitId |-> NONE, leaseTerm |-> NONE,
               agreedToTerms |-> NONE, signature |-> NONE],
     isSubmitting |-> FALSE,
     agreed |-> FALSE,
     hasSignature |-> FALSE,
     page |-> "/onboarding",
     sent |-> <<>>]

\* No page requested yet
BrowserStart ==
    [middleware |-> NONE, token |-> [present |-> FALSE, role |-> NONE], from |-> "/", path |-> "/",
     response |-> [kind |-> "none", to |-> NONE], seen |-> {}]

Start ==
    /\ users = [u \in UserIds |->
                 [role |-> CASE u \in {"L1", "L2"} -> "LANDLORD"
                             [] u \in {"T1", "T2"} -> "TENANT"
                             [] OTHER -> "ADMIN",
                  stripeCustomerId |-> NONE,
                  status |-> IF u \in {"T1", "T2"} THEN "PENDING" ELSE "ACTIVE",
                  emailNotifications |-> TRUE,
                  telegramNotifications |-> TRUE,
                  telegramChatId |-> IF u \in {"L1", "L2"} THEN "chat" ELSE NONE]]
    /\ properties = [p \in {"P1", "P2"} |->
                      [ownerId |-> IF p = "P1" THEN "L1" ELSE "L2", name |-> "Oak", totalUnits |-> 1]]
    /\ units = [x \in {"U1", "U2"} |->
                 [propertyId |-> IF x = "U1" THEN "P1" ELSE "P2", unitNumber |-> "101", status |-> "OCCUPIED"]]
    /\ \E s \in {"ACTIVE", "PENDING_SIGNATURE", "TERMINATED"} :
         leases = [l \in {"LS1", "LS2"} |->
                    [tenantId |-> IF l = "LS1" THEN "T1" ELSE "T2",
                     unitId |-> IF l = "LS1" THEN "U1" ELSE "U2",
                     status |-> IF l = "LS1" THEN "ACTIVE" ELSE s]]
    /\ requests = [m \in {"M1"} |->
                    [tenantId |-> "T1", unitId |-> "U1", status |-> "SUBMITTED", priority |-> "MEDIUM",
                     acknowledgedAt |-> NULL, completedAt |-> NULL]]
    /\ updates = <<>>
    /\ payments = <<>>
    /\ audit = <<>>
    /\ gateway = [customers |-> {}, intents |-> <<>>, setups |-> <<>>]
    /\ now = 0
    /\ inflight = <<>>
    /\ notifications = <<>>
    /\ outbox = <<>>
    /\ wizard = WizardStart
    /\ browser = BrowserStart

Areas == {"maintenance", "units", "properties", "payments"}

\* The status of the second lease matters to the deletes only
Init ==
    /\ Start
    /\ area \in Areas
    /\ area \in {"maintenance", "payments"} => leases["LS2"].status = "ACTIVE"

----------------------------------------------------------------------------
(* The lifecycle runs: the owner sends well-formed updates of one request, *)
(* MaxUpdates rows deep.                                                   *)

LifecycleCallers == {"L1"}

LifecyclePutBodies ==
    [malformed : {FALSE}, status : maintenanceStatuses \cup {NONE}, priority : {NONE}]

\* Public notes with every status; internal notes without a status and with one
LifecyclePostBodies ==
    [malformed : {FALSE}, message : {"note"}, newStatus : maintenanceStatuses \cup {NONE}, isPublic : {NONE}]
    \cup [malformed : {FALSE}, message : {"note"}, newStatus : {NONE, "IN_PROGRESS"}, isPublic : {"false"}]

Bounded(out, maxRows) ==
    /\ Len(out.store.updates) <= maxRows
    /\ out.now <= MaxTime

PutMaintenance(u, id, body, fault, maxRows) ==
    LET out == LandlordMaintenancePUT(u, id, body, fault) IN
    /\ Bounded(out, maxRows)
    /\ Commit(out)

PostMaintenance(u, id, body, fault, maxRows) ==
    LET out == LandlordMaintenancePOST(u, id, body, fault) IN
    /\ Bounded(out, maxRows)
    /\ Commit(out)

LifecycleNext ==
    /\ area = "lifecycle"
    /\ \/ \E u \in LifecycleCallers, body \in LifecyclePutBodies :
             PutMaintenance(u, "M1", body, "none", MaxUpdates)
       \/ \E u \in LifecycleCallers, body \in LifecyclePostBodies :
             PostMaintenance(u, "M1", body, "none", MaxUpdates)

LifecycleInit == Start /\ area = "lifecycle" /\ leases["LS2"].status = "TERMINATED"

LifecycleSpec == LifecycleInit /\ [][LifecycleNext]_vars

----------------------------------------------------------------------------
(* The runs over every caller and body.  Each run sends its requests to   *)
(* one route group, `area`; a handler is an action that commits its       *)
(* outcome, whatever the response.                                        *)

WithinBounds(out) ==
    /\ out.now <= MaxTime
    /\ Len(out.store.payments) <= MaxPayments
    /\ Len(out.gateway.intents) <= MaxIntents
    /\ Cardinality(out.gateway.customers) <= MaxCustomers
    /\ Cardinality(DOMAIN out.store.units) <= MaxUnits
    /\ Cardinality(DOMAIN out.store.leases) <= MaxLeases
    /\ Cardinality(DOMAIN out.store.requests) <= MaxRequests
    /\ Cardinality(DOMAIN out.store.properties) <= MaxProperties
    /\ \A p \in DOMAIN out.store.properties : out.store.properties[p].totalUnits \in 0..MaxTotalUnits

Run(out) == WithinBounds(out) /\ Commit(out)

\* Requests to /api/landlord/maintenance/[id]
MaintenanceCallers == {Anon, "L1", "L2", "T1", "A"}
MaintenanceTargets == {"M1", "M9"}
MaintenanceFaults == {"findUnique", "update", "create"}

MalformedPut == [malformed |-> TRUE, status |-> NONE, priority |-> NONE]
PutBodies ==
    {MalformedPut}
    \cup [malformed : {FALSE}, status : {NONE, "ACKNOWLEDGED", "BOGUS"}, priority : {NONE, "HIGH", "BOGUS"}]

MalformedPost == [malformed |-> TRUE, message |-> NONE, newStatus |-> NONE, isPublic |-> NONE]
PostBodies ==
    {MalformedPost}
    \cup [malformed : {FALSE}, message : {NONE, "", "note"}, newStatus : {NONE, "COMPLETED", "BOGUS"},
          isPublic : {NONE}]

\* A collaborator is made to throw for the two landlords
MaintenanceCalls(bodies) ==
    [u : MaintenanceCallers, id : MaintenanceTargets, body : bodies, fault : {"none"}]
    \cup [u : {"L1", "L2"}, id : MaintenanceTargets, body : bodies, fault : MaintenanceFaults]

MaintenanceNext ==
    /\ area = "maintenance"
    /\ \/ \E c \in MaintenanceCalls(PutBodies) : PutMaintenance(c.u, c.id, c.body, c.fault, MaxLog)
       \/ \E c \in MaintenanceCalls(PostBodies) : PostMaintenance(c.u, c.id, c.body, c.fault, MaxLog)

\* Requests to /api/landlord/properties/[id]/units
LandlordCallers == {Anon, "L1", "L2", "A"}
UnitPaths == {"P1", "P2"}
UnitTargets == {"U1", "U2", "U3"}
UnitFaults == {"property.findUnique", "unit.findUnique", "unit.create", "unit.update", "unit.delete",
               "property.update"}

MalformedUnit == [malformed |-> TRUE, unitNumber |-> NONE, status |-> NONE]
UnitBodies ==
    {MalformedUnit}
    \cup [malformed : {FALSE}, unitNumber : {NONE, "", "101", "102"}, status : {NONE, "BOGUS"}]

CreateUnit(u, pid, body, fault) == Run(UnitsPOST(u, pid, body, fault))
UpdateUnit(u, pid, unitId, body, fault) == Run(UnitPUT(u, pid, unitId, body, fault))
DeleteUnit(u, pid, unitId, fault) == Run(UnitDELETE(u, pid, unitId, fault))

UnitsNext ==
    /\ area = "units"
    /\ \/ \E u \in LandlordCallers, pid \in UnitPaths \cup {"P9"}, body \in UnitBodies :
             CreateUnit(u, pid, body, "none")
       \/ \E u \in LandlordCallers, pid \in UnitPaths, x \in UnitTargets, body \in UnitBodies :
             UpdateUnit(u, pid, x, body, "none")
       \/ \E u \in LandlordCallers, pid \in UnitPaths, x \in UnitTargets :
             DeleteUnit(u, pid, x, "none")
       \/ \E u \in {"L1", "L2"}, pid \in UnitPaths, fault \in UnitFaults :
             LET body == [malformed |-> FALSE, unitNumber |-> "102", status |-> NONE] IN
             \/ CreateUnit(u, pid, body, fault)
             \/ \E x \in UnitTargets : UpdateUnit(u, pid, x, body, fault) \/ DeleteUnit(u, pid, x, fault)

\* Requests to /api/landlord/properties
PropertyCallers == {Anon, "L1", "L2", "T1", "A"}
PropertyTargets == {"P1", "P2", "P3"}
PropertyFaults == {"property.findUnique", "property.update", "property.delete", "property.create"}

MalformedProperty == [malformed |-> TRUE, name |-> NONE]
PropertyBodies == {MalformedProperty} \cup [malformed : {FALSE}, name : {NONE, "", "Elm"}]

UpdateProperty(u, pid, body, fault) == Run(PropertyPUT(u, pid, body, fault))
DeleteProperty(u, pid, fault) == Run(PropertyDELETE(u, pid, fault))
CreateProperty(u, body, fault) == Run(PropertiesPOST(u, body, fault))

PropertiesNext ==
    /\ area = "properties"
    /\ \/ \E u \in PropertyCallers, pid \in PropertyTargets, body \in PropertyBodies :
             UpdateProperty(u, pid, body, "none")
       \/ \E u \in PropertyCallers, pid \in PropertyTargets : DeleteProperty(u, pid, "none")
       \/ \E u \in PropertyCallers, body \in PropertyBodies : CreateProperty(u, body, "none")
       \/ \E u \in {"L1", "L2"}, pid \in PropertyTargets, fault \in PropertyFaults :
             LET body == [malformed |-> FALSE, name |-> "Elm"] IN
             \/ UpdateProperty(u, pid, body, fault)
             \/ DeleteProperty(u, pid, fault)
             \/ CreateProperty(u, body, fault)

\* Requests to /api/tenant/payments and /api/landlord/payments
TenantCallers == {Anon, "T1", "T2", "L1"}
PaymentCallers == {Anon, "L1", "L2", "T1", "A"}
LeaseTargets == {"", "LS1", "LS2", "LS9"}
PaymentFaults == {"lease.findUnique", "user.findUnique", "customers.retrieve", "customers.create",
                  "user.update", "paymentIntents.create", "payment.create"}

MalformedPayment == [malformed |-> TRUE, leaseId |-> "", type |-> "RENT", amount |-> 0]
PaymentBodies ==
    {MalformedPayment}
    \cup [malformed : {FALSE}, leaseId : LeaseTargets, type : {"RENT", "BOGUS"}, amount : {0, 50}]

MalformedManual == [malformed |-> TRUE, leaseId |-> "", tenantId |-> "", type |-> "RENT", amount |-> 0]
ManualBodies ==
    {MalformedManual}
    \cup [malformed : {FALSE}, leaseId : LeaseTargets, tenantId : {"", "T1"}, type : {"RENT"},
          amount : {0, 50}]

CreatePayment(u, body, fault) == Run(TenantPaymentsPOST(u, body, fault))
RecordPayment(u, body, fault) == Run(LandlordPaymentsPOST(u, body, fault))

PaymentsNext ==
    /\ area = "payments"
    /\ \/ \E u \in TenantCallers, body \in PaymentBodies : CreatePayment(u, body, "none")
       \/ \E u \in PaymentCallers, body \in ManualBodies : RecordPayment(u, body, "none")
       \/ \E fault \in PaymentFaults :
             \/ CreatePayment("T1", [malformed |-> FALSE, leaseId |-> "LS1", type |-> "RENT",
                                     amount |-> 50], fault)
             \/ RecordPayment("L1", [malformed |-> FALSE, leaseId |-> "LS1", tenantId |-> "T1",
                                     type |-> "RENT", amount |-> 50], fault)

Next == MaintenanceNext \/ UnitsNext \/ PropertiesNext \/ PaymentsNext

Spec == Init /\ [][Next]_vars

----------------------------------------------------------------------------
(* The intake runs: landlords list and reopen units, users submit the      *)
(* onboarding form and file maintenance requests, one handler at a time.   *)

IntakeCallers == {Anon, "T1", "T2", "L1"}
Applicants == {Anon, "T1", "T2"}
IntakeUnits == {"", "U1", "U3", "U9"}
OnboardingFaults == {"unit.findUnique", "user.update", "lease.create", "unit.update", "auditLog.create"}

MalformedOnboarding ==
    [malformed |-> TRUE, firstName |-> NONE, ssnLast4 |-> NONE, dateOfBirth |-> NONE, unitId |-> NONE,
     leaseTerm |-> NONE, signature |-> NONE]

\* The form filled in for a unit
Application(unitId) ==
    [malformed |-> FALSE, firstName |-> "Ann", ssnLast4 |-> "1234", dateOfBirth |-> "1990-01-01",
     unitId |-> unitId, leaseTerm |-> "12", signature |-> "Ann"]

OnboardingBodies ==
    {MalformedOnboarding}
    \cup {Application(x) : x \in IntakeUnits}
    \cup {[Application("U3") EXCEPT !.firstName = ""], [Application("U3") EXCEPT !.ssnLast4 = "12"],
          [Application("U3") EXCEPT !.leaseTerm = "BOGUS"], [Application("U3") EXCEPT !.signature = ""],
          [Application("U3") EXCEPT !.dateOfBirth = "BOGUS"],
          [Application("U1") EXCEPT !.signature = NONE, !.leaseTerm = "BOGUS"]}

RequestFaults == {"lease.findFirst", "maintenanceRequest.create"}

MalformedRequest ==
    [malformed |-> TRUE, title |-> NONE, description |-> NONE, category |-> NONE, priority |-> NONE]

\* A request about the plumbing that leaves the priority out
Report(title, description) ==
    [malformed |-> FALSE, title |-> title, description |-> description, category |-> "PLUMBING",
     priority |-> NONE]

RequestBodies ==
    {MalformedRequest}
    \cup {Report(title, description) :
             title \in {"", "Leak"},
             description \in {NONE, "", "Tap drips", "Tap drips!", "The kitchen tap drips"}}
    \cup {[Report("Leak", description) EXCEPT !.category = "BOGUS"] : description \in {"Tap drips", "Tap drips!"}}
    \cup {[Report("Leak", "Tap drips!") EXCEPT !.priority = p] : p \in {"HIGH", "BOGUS"}}

\* What findFirst can return for the user
Picks(u) == IF ActiveLeasesOfTenant(u) = {} THEN {NONE} ELSE ActiveLeasesOfTenant(u)

\* The owner lists a unit, which is VACANT unless the body says otherwise
ListUnit(u, pid, body) == Run(UnitsPOST(u, pid, body, "none"))

\* The owner sets the status of a unit
ReopenUnit(u, pid, unitId, body) == Run(UnitPUT(u, pid, unitId, body, "none"))

Onboard(u, body, fault) == Run(OnboardingPOST(u, body, fault))

FileRequest(u, body, pick, fault) == Run(TenantMaintenancePOST(u, body, pick, fault))

IntakeNext ==
    /\ area = "intake"
    /\ \/ ListUnit("L1", "P1", [malformed |-> FALSE, unitNumber |-> "102", status |-> NONE])
       \/ ReopenUnit("L1", "P1", "U3", [malformed |-> FALSE, unitNumber |-> NONE, status |-> "VACANT"])
       \/ \E u \in Applicants, body \in OnboardingBodies : Onboard(u, body, "none")
       \/ \E fault \in OnboardingFaults : Onboard("T2", Application("U3"), fault)
       \/ \E u \in IntakeCallers, body \in RequestBodies : \E pick \in Picks(u) :
             FileRequest(u, body, pick, "none")
       \/ \E fault \in RequestFaults :
             FileRequest("T1", Report("Leak", "Tap drips!"), "LS1", fault)

IntakeInit == Start /\ area = "intake" /\ leases["LS2"].status \in {"ACTIVE", "TERMINATED"}

IntakeSpec == IntakeInit /\ [][IntakeNext]_vars

----------------------------------------------------------------------------
(* The overlapping runs.  A handler awaits each database call, so another  *)
(* handler can run between its reads and its transaction.  `inflight`      *)
(* holds the handlers that passed their checks and have not yet run their  *)
(* transaction, each with what it read.                                    *)

RemoveAt(seq, i) == SubSeq(seq, 1, i - 1) \o SubSeq(seq, i + 1, Len(seq))

\* The entry stays in flight and the store is as it was
Await(entry) ==
    /\ Len(inflight) < MaxInflight
    /\ inflight' = Append(inflight, entry)
    /\ UNCHANGED <<properties, units, leases, requests, updates, payments, users, notifications, audit,
                   gateway, area, outbox, wizard, browser>>

\* The transaction of the i-th handler in flight commits
Resume(i, out) ==
    /\ WithinBounds(out)
    /\ Len(out.store.updates) <= MaxLog
    /\ Write(out)
    /\ inflight' = RemoveAt(inflight, i)
    /\ UNCHANGED <<area, outbox, wizard, browser>>

\* POST /api/onboarding/submit up to the start of its transaction
OnboardingBegin(u, body) ==
    LET check == OnboardingCheck(u, body, "none") IN
    /\ check.passed
    /\ Await([kind |-> "onboarding", u |-> u, data |-> check.data])
    /\ UNCHANGED now

\* ... and its transaction, on the store as it is by then
OnboardingFinish(i) ==
    /\ inflight[i].kind = "onboarding"
    /\ Resume(i, OnboardingTransaction(inflight[i].u, inflight[i].data, "none"))

\* PUT /api/landlord/maintenance/[id] up to the start of its transaction:
\* the request is read, the body validated, updateData built, the clock read
PutBegin(u, id, body) ==
    LET data == updateMaintenanceRequestSchema(body).data
        existing == requests[id]
        readsClock == PutSetsAcknowledgedAt(existing, data) \/ PutSetsCompletedAt(existing, data)
        t == IF readsClock THEN now + 1 ELSE now
    IN
    /\ LandlordMaintenancePUT(u, id, body, "none").resp.status = 200
    /\ t <= MaxTime
    /\ Await([kind |-> "put", u |-> u, id |-> id, data |-> data, existing |-> existing, t |-> t])
    /\ now' = t

\* ... and its transaction
PutFinish(i) ==
    LET e == inflight[i]
        after == PutTransaction(e.id, e.existing, e.data, e.t)
    IN
    /\ e.kind = "put"
    /\ Resume(i, Outcome(Response("PUT maintenance", 200, NONE, {RequestView(e.id, after.requests[e.id])}),
                         after, gateway, now))

\* POST /api/landlord/maintenance/[id] up to the start of its transaction
PostBegin(u, id, body) ==
    LET data == addMaintenanceUpdateSchema(body).data
        existing == requests[id]
        readsClock == /\ PostStatusChanged(existing, data)
                      /\ PostSetsAcknowledgedAt(existing, data) \/ PostSetsCompletedAt(existing, data)
        t == IF readsClock THEN now + 1 ELSE now
    IN
    /\ LandlordMaintenancePOST(u, id, body, "none").resp.status = 201
    /\ t <= MaxTime
    /\ Await([kind |-> "post", u |-> u, id |-> id, data |-> data, existing |-> existing, t |-> t])
    /\ now' = t

\* ... and its transaction
PostFinish(i) ==
    LET e == inflight[i]
        after == PostTransaction(e.id, e.existing, e.data, e.t)
    IN
    /\ e.kind = "post"
    /\ Resume(i, Outcome(Response("POST maintenance", 201, NONE, {PostLogRow(e.id, e.existing, e.data)}),
                         after, gateway, now))

RacePutBodies == [malformed : {FALSE}, status : {"ACKNOWLEDGED", "IN_PROGRESS"}, priority : {NONE}]
RacePostBodies == [malformed : {FALSE}, message : {"note"}, newStatus : {NONE, "COMPLETED"}, isPublic : {NONE}]

\* Applications for one unit overlap
BookingNext ==
    /\ area = "booking"
    /\ \/ ListUnit("L1", "P1", [malformed |-> FALSE, unitNumber |-> "102", status |-> NONE])
       \/ \E u \in {"T1", "T2"} : OnboardingBegin(u, Application("U3"))
       \/ \E i \in 1..Len(inflight) : OnboardingFinish(i)

\* Status updates of one request overlap
UpdatingNext ==
    /\ area = "updating"
    /\ \/ \E body \in RacePutBodies : PutBegin("L1", "M1", body)
       \/ \E body \in RacePostBodies : PostBegin("L1", "M1", body)
       \/ \E i \in 1..Len(inflight) : PutFinish(i)
       \/ \E i \in 1..Len(inflight) : PostFinish(i)

RaceNext == BookingNext \/ UpdatingNext

RaceInit == Start /\ area \in {"booking", "updating"} /\ leases["LS2"].status = "ACTIVE"

RaceSpec == RaceInit /\ [][RaceNext]_vars

----------------------------------------------------------------------------
(* The unified notification service *)

NotificationPool == <<"N1", "N2", "N3", "N4", "N5", "N6">>

\* mapToCategory
mapToCategory(type) ==
    CASE type = "PAYMENT_RECEIVED" -> "PAYMENT_RECEIVED"
      [] type \in {"PAYMENT_DUE", "PAYMENT_LATE"} -> "PAYMENT_REMINDER"
      [] type \in {"MAINTENANCE_SUBMITTED", "MAINTENANCE_UPDATE"} -> "MAINTENANCE_UPDATE"
      [] type \in {"LEASE_EXPIRING", "LEASE_SIGNED"} -> "LEASE_EXPIRING"
      [] OTHER -> "GENERAL"

\* The service at work: the Notification table, the messages handed to the
\* senders, and whether a sender has thrown
Service(table, sent) == [notifications |-> table, outbox |-> sent, thrown |-> FALSE]

\* await emailService.send...(to, ...): the sender throws under fault "email"
sendEmail(sv, to, type, fault) ==
    IF sv.thrown THEN sv
    ELSE [sv EXCEPT !.outbox = Append(@, [channel |-> "email", to |-> to, type |-> type]),
                    !.thrown = fault = "email"]

\* if (data.landlordTelegramId) await telegramService.send...(chat, ...)
sendTelegram(sv, to, chatId, type, fault) ==
    IF sv.thrown \/ chatId = NONE THEN sv
    ELSE [sv EXCEPT !.outbox = Append(@, [channel |-> "telegram", to |-> to, type |-> type]),
                    !.thrown = fault = "telegram"]

\* createInAppNotification: a failed create is logged and swallowed
createInAppNotification(sv, userId, type, fault) ==
    IF sv.thrown \/ fault = "notification.create" THEN sv
    ELSE [sv EXCEPT !.notifications =
             (NewId(NotificationPool, @) :> [userId |-> userId, category |-> mapToCategory(type),
                                             readAt |-> NULL]) @@ @]

\* The data of a notify function: the tenant, the owner and the owner's chat
notifyMaintenanceSubmitted(sv, data, fault) ==
    LET type == "MAINTENANCE_SUBMITTED"
        mailed == sendEmail(sv, data.landlordId, type, fault)
        chatted == sendTelegram(mailed, data.landlordId, data.landlordTelegramId, type, fault)
    IN createInAppNotification(chatted, data.landlordId, type, fault)

notifyMaintenanceUpdate(sv, data, fault) ==
    LET type == "MAINTENANCE_UPDATE"
        mailed == sendEmail(sv, data.tenantId, type, fault)
    IN createInAppNotification(mailed, data.tenantId, type, fault)

notifyPaymentReceived(sv, data, fault) ==
    LET type == "PAYMENT_RECEIVED"
        mailed == sendEmail(sv, data.tenantId, type, fault)
        chatted == sendTelegram(mailed, data.landlordId, data.landlordTelegramId, type, fault)
        told == createInAppNotification(chatted, data.tenantId, type, fault)
    IN createInAppNotification(told, data.landlordId, type, fault)

\* notifyRentDue, notifyLatePayment and notifyWelcome: an email and an
\* in-app notification to the tenant
notifyTenant(sv, type, data, fault) ==
    createInAppNotification(sendEmail(sv, data.tenantId, type, fault), data.tenantId, type, fault)

notifyLeaseExpiring(sv, data, fault) ==
    LET type == "LEASE_EXPIRING"
        mailed == sendEmail(sv, data.tenantId, type, fault)
        told == createInAppNotification(mailed, data.tenantId, type, fault)
    IN createInAppNotification(told, data.landlordId, type, fault)

----------------------------------------------------------------------------
(* /api/notifications *)

\* if (markAllRead): the truthiness of the field
Truthy(v) == v \notin {NONE, "false", ""}

\* Mutation: the where clause without userId
UnreadOfAnyone(u, n) ==
    notifications[n].readAt = NULL

\* where: { userId: session.user.id, readAt: null }
UnreadOf(u, n) ==
    notifications[n].userId = u /\ notifications[n].readAt = NULL

\* updateMany(where, data: { readAt: new Date() }) over the ids chosen
MarkedRead(chosen, t) ==
    [n \in DOMAIN notifications |->
        IF n \in chosen THEN [notifications[n] EXCEPT !.readAt = t] ELSE notifications[n]]

\* PUT /api/notifications.  notificationIds is [kind, ids]: kind "array"
\* with its ids, or what else the body holds under that name.
NotificationsPUT(u, body, fault) ==
    LET failed == Reply("PUT notifications", 500, "Failed to update notifications")
        all == {n \in DOMAIN notifications : UnreadOf(u, n)}
        listed == {n \in DOMAIN notifications : n \in body.notificationIds.ids /\ UnreadOf(u, n)}
        t == now + 1
        done(chosen) ==
            Outcome(Response("PUT notifications", 200, NONE, NoData),
                    [Store EXCEPT !.notifications = MarkedRead(chosen, t)], gateway,
                    IF chosen = {} THEN now ELSE t)
    IN
    IF u = Anon THEN Reply("PUT notifications", 401, "Unauthorized")
    ELSE IF body.malformed THEN failed
    ELSE IF Truthy(body.markAllRead)
         THEN IF fault = "notification.updateMany" THEN failed ELSE done(all)
    ELSE IF body.notificationIds.kind = "array"
         THEN IF fault = "notification.updateMany" THEN failed ELSE done(listed)
    ELSE Reply("PUT notifications", 400, "Invalid request - provide notificationIds or markAllRead")

----------------------------------------------------------------------------
(* The notice runs: the service is called for a tenant and an owner, the   *)
(* two mark notifications read, and the stored preferences change.         *)

NoticeData == [tenantId : {"T1"}, landlordId : {"L1"}, landlordTelegramId : {NONE, "chat"}]
NoticeFaults == {"none", "email", "notification.create"}

NoticeBodies ==
    [malformed : {FALSE}, markAllRead : {NONE, "true"},
     notificationIds : {[kind |-> "undefined", ids |-> {}], [kind |-> "array", ids |-> {}],
                        [kind |-> "array", ids |-> {"N1"}]}]
    \cup [malformed : {FALSE}, markAllRead : {"false"},
          notificationIds : {[kind |-> "string", ids |-> {}], [kind |-> "array", ids |-> {"N1", "N2", "N3"}]}]
    \cup {[malformed |-> TRUE, markAllRead |-> NONE, notificationIds |-> [kind |-> "undefined", ids |-> {}]]}

\* The service has run: its rows and its messages become the state
Served(sv) ==
    /\ Cardinality(DOMAIN sv.notifications) <= MaxNotices
    /\ Len(sv.outbox) <= MaxSent
    /\ notifications' = sv.notifications
    /\ outbox' = sv.outbox
    /\ UNCHANGED <<properties, units, leases, requests, updates, payments, users, audit, gateway, now,
                   area, inflight, wizard, browser>>

Notify(data, fault) ==
    LET sv == Service(notifications, outbox) IN
    \/ Served(notifyMaintenanceSubmitted(sv, data, fault))
    \/ Served(notifyMaintenanceUpdate(sv, data, fault))
    \/ Served(notifyPaymentReceived(sv, data, fault))
    \/ Served(notifyLeaseExpiring(sv, data, fault))
    \/ \E type \in {"PAYMENT_DUE", "PAYMENT_LATE", "WELCOME"} : Served(notifyTenant(sv, type, data, fault))

\* A user's stored preferences are changed
SetPreferences(u, email, telegram) ==
    /\ users' = [users EXCEPT ![u].emailNotifications = email, ![u].telegramNotifications = telegram]
    /\ UNCHANGED <<properties, units, leases, requests, updates, payments, notifications, audit, gateway,
                   now, area, inflight, outbox, wizard, browser>>

MarkRead(u, body, fault) ==
    LET out == NotificationsPUT(u, body, fault) IN
    /\ out.now <= MaxTime
    /\ Commit(out)

NoticeNext ==
    /\ area = "notices"
    /\ \/ \E data \in NoticeData, fault \in NoticeFaults : Notify(data, fault)
       \/ \E email, telegram \in BOOLEAN : SetPreferences("T1", email, TRUE) \/ SetPreferences("L1", TRUE, telegram)
       \/ \E u \in {Anon, "T1", "L1"}, body \in NoticeBodies : MarkRead(u, body, "none")
       \/ MarkRead("T1", [malformed |-> FALSE, markAllRead |-> "true",
                          notificationIds |-> [kind |-> "undefined", ids |-> {}]], "notification.updateMany")

NoticeInit == Start /\ area = "notices" /\ leases["LS2"].status = "ACTIVE"

NoticeSpec == NoticeInit /\ [][NoticeNext]_vars

----------------------------------------------------------------------------
(* The route middleware.  The repository holds two versions of it, named   *)
(* here after their files: "part_016" and "types".                         *)

Pages ==
    {"/", "/login", "/register", "/settings", "/onboarding", "/tenant/dashboard", "/tenant/payments",
     "/landlord/dashboard", "/landlord/properties", "/admin/users", "/api/auth/signin"}

\* path.startsWith(prefix), over Pages
startsWith(path, prefix) ==
    path \in CASE prefix = "/tenant" -> {"/tenant/dashboard", "/tenant/payments"}
               [] prefix = "/landlord" -> {"/landlord/dashboard", "/landlord/properties"}
               [] prefix = "/admin" -> {"/admin/users"}
               [] prefix = "/onboarding" -> {"/onboarding"}
               [] prefix \in {"/api/", "/api/auth"} -> {"/api/auth/signin"}
               [] OTHER -> {}

\* A token is [present, role]; the role of a token may be missing (NONE)
Tokens ==
    {[present |-> FALSE, role |-> NONE]}
    \cup [present : {TRUE}, role : {"TENANT", "LANDLORD", "ADMIN", "OTHER", NONE}]

redirect(to) == [kind |-> "redirect", to |-> to]
next == [kind |-> "next", to |-> NONE]

\* Mutation: every role may enter the tenant pages
TenantAllowedAnyone(role) ==
    TRUE

\* token.role === 'TENANT' || token.role === 'ADMIN'
TenantAllowed(role) ==
    role \in {"TENANT", "ADMIN"}

\* token.role === 'LANDLORD' || token.role === 'ADMIN'
LandlordAllowed(role) ==
    role \in {"LANDLORD", "ADMIN"}

\* function middleware(req)
middleware(version, token, path) ==
    IF token.present /\ path \in {"/login", "/register"}
    THEN redirect(IF token.role = "LANDLORD" THEN "/landlord/dashboard" ELSE "/tenant/dashboard")
    ELSE IF startsWith(path, "/tenant") /\ ~token.present THEN redirect("/login")
    ELSE IF startsWith(path, "/tenant") /\ ~TenantAllowed(token.role) THEN redirect("/landlord/dashboard")
    ELSE IF startsWith(path, "/landlord") /\ ~token.present THEN redirect("/login")
    ELSE IF startsWith(path, "/landlord") /\ ~LandlordAllowed(token.role) THEN redirect("/tenant/dashboard")
    ELSE IF version = "part_016" /\ startsWith(path, "/onboarding") /\ ~token.present THEN redirect("/login")
    ELSE IF startsWith(path, "/admin") /\ (~token.present \/ token.role # "ADMIN") THEN redirect("/login")
    ELSE next

\* callbacks.authorized
authorized(version, token, path) ==
    \/ path \in {"/", "/login", "/register"}
    \/ IF version = "part_016" THEN startsWith(path, "/api/auth")
       ELSE startsWith(path, "/api/") \/ startsWith(path, "/onboarding")
    \/ token.present

\* pages.signIn of the options handed to withAuth, /api/auth/signin when
\* the options name none
signInPage(version) == IF version = "types" THEN "/login" ELSE "/api/auth/signin"

\* withAuth(middleware, options): the routes of the session provider and
\* the sign-in page pass, a request that is not authorized is sent to the
\* sign-in page, an authorized one is handed to the middleware
withAuth(version, token, path) ==
    IF startsWith(path, "/api/auth") \/ path = signInPage(version) THEN next
    ELSE IF authorized(version, token, path) THEN middleware(version, token, path)
    ELSE redirect(signInPage(version))

\* What the browser receives for a path: the answer of the middleware or,
\* when it passes, of the route; /api/auth/signin sends on to pages.signIn
\* of authOptions
Respond(version, token, path) ==
    LET passed == withAuth(version, token, path) IN
    IF passed.kind = "next" /\ path = "/api/auth/signin" THEN redirect("/login") ELSE passed

\* A page is requested
Navigate(version, token, path) ==
    /\ browser.response.kind # "redirect"
    /\ browser' = [middleware |-> version, token |-> token, from |-> path, path |-> path,
                   response |-> Respond(version, token, path), seen |-> {path}]
    /\ UNCHANGED <<properties, units, leases, requests, updates, payments, users, notifications, audit,
                   gateway, now, area, inflight, outbox, wizard>>

\* The browser follows a redirect
Follow ==
    /\ browser.response.kind = "redirect"
    /\ browser' = [browser EXCEPT
                      !.path = browser.response.to,
                      !.response = Respond(browser.middleware, browser.token, browser.response.to),
                      !.seen = @ \cup {browser.response.to}]
    /\ UNCHANGED <<properties, units, leases, requests, updates, payments, users, notifications, audit,
                   gateway, now, area, inflight, outbox, wizard>>

GateNext ==
    /\ area = "pages"
    /\ \/ \E version \in {"part_016", "types"}, token \in Tokens, path \in Pages :
             Navigate(version, token, path)
       \/ Follow

GateInit == Start /\ area = "pages" /\ leases["LS2"].status = "ACTIVE"

GateSpec == GateInit /\ [][GateNext]_vars

----------------------------------------------------------------------------
(* The onboarding wizard: OnboardingProvider and the five steps *)

\* The fields of the forms of steps 0 to 3
StepFields(step) ==
    CASE step = 0 -> {"firstName", "ssnLast4", "dateOfBirth"}
      [] step = 1 -> {"emergencyContactName"}
      [] step = 2 -> {"employmentStatus"}
      [] step = 3 -> {"unitId", "leaseTerm"}

\* zodResolver(personalInfoSchema | emergencyContactSchema |
\* employmentInfoSchema | leaseSelectionSchema): the form validates
StepValid(step, form) ==
    CASE step = 0 -> form.firstName # "" /\ form.dateOfBirth # "" /\ form.ssnLast4 = "1234"
      [] step = 1 -> form.emergencyContactName # ""
      [] step = 2 -> form.employmentStatus \in {"EMPLOYED", "SELF_EMPLOYED", "UNEMPLOYED", "STUDENT", "RETIRED"}
      [] step = 3 -> form.unitId # "" /\ form.leaseTerm \in leaseTerms

\* GET /api/onboarding/available-units
AvailableUnits == {x \in DOMAIN units : units[x].status = "VACANT"}

\* What the user may have typed or chosen in the form of a step
StepForms(step) ==
    CASE step = 0 -> [firstName : {"", "Ann", "Bea"}, ssnLast4 : {"12", "1234"}, dateOfBirth : {"1990-01-01"}]
      [] step = 1 -> [emergencyContactName : {"", "Cy"}]
      [] step = 2 -> [employmentStatus : {"", "EMPLOYED"}]
      [] step = 3 -> [unitId : AvailableUnits \cup {""}, leaseTerm : {"12", "24"}]

\* Mutation: the new fields replace the data
updateDataReplacing(prev, newData) ==
    [f \in DOMAIN prev |-> IF f \in DOMAIN newData THEN newData[f] ELSE NONE]

\* updateData: setData((prev) => ({ ...prev, ...newData }))
updateData(prev, newData) ==
    [f \in DOMAIN prev |-> IF f \in DOMAIN newData THEN newData[f] ELSE prev[f]]

WizardMoves(w) ==
    /\ wizard' = w
    /\ UNCHANGED <<properties, units, leases, requests, updates, payments, users, notifications, audit,
                   gateway, now, area, inflight, outbox, browser>>

\* handleSubmit(onSubmit) of steps 0 to 3: onSubmit runs when the form
\* validates; ReviewSignStep mounts when step 4 is shown
StepSubmit(form) ==
    LET step == wizard.currentStep IN
    /\ wizard.page = "/onboarding"
    /\ step \in 0..3
    /\ form \in StepForms(step)
    /\ step = 3 => AvailableUnits # {}
    /\ StepValid(step, form)
    /\ WizardMoves([wizard EXCEPT
            !.data = updateData(@, form),
            !.currentStep = step + 1,
            !.agreed = IF step = 3 THEN wizard.data.agreedToTerms = "true" ELSE @,
            !.hasSignature = IF step = 3 THEN FALSE ELSE @])

\* handleBack of steps 1 to 4
StepBack ==
    /\ wizard.page = "/onboarding"
    /\ wizard.currentStep \in 1..4
    /\ ~wizard.isSubmitting
    /\ WizardMoves([wizard EXCEPT !.currentStep = @ - 1])

\* The checkbox and the signature pad of ReviewSignStep
ReviewInput(agreed, hasSignature) ==
    /\ wizard.page = "/onboarding"
    /\ wizard.currentStep = 4
    /\ WizardMoves([wizard EXCEPT !.agreed = agreed, !.hasSignature = hasSignature])

\* handleSubmit of ReviewSignStep up to the fetch: the button is enabled,
\* the user has agreed and signed
ReviewSubmit ==
    LET signed == [agreedToTerms |-> "true", signature |-> "Ann"] IN
    /\ wizard.page = "/onboarding"
    /\ wizard.currentStep = 4
    /\ ~wizard.isSubmitting /\ wizard.agreed /\ wizard.hasSignature
    /\ Len(wizard.sent) < MaxPosts
    /\ WizardMoves([wizard EXCEPT
            !.data = updateData(@, signed),
            !.isSubmitting = TRUE,
            !.sent = Append(@, [malformed |-> FALSE] @@ updateData(wizard.data, signed))])

\* ... and from the response on: POST /api/onboarding/submit has run for
\* the session u
ReviewAnswered(u, fault) ==
    LET out == OnboardingPOST(u, wizard.sent[Len(wizard.sent)], fault)
        ok == out.resp.status \in 200..299
    IN
    /\ wizard.isSubmitting
    /\ WithinBounds(out)
    /\ Write(out)
    /\ wizard' = [wizard EXCEPT !.isSubmitting = FALSE,
                                !.page = IF ok THEN "/onboarding/success" ELSE @]
    /\ UNCHANGED <<area, inflight, outbox, browser>>

WizardNext ==
    /\ area = "wizard"
    /\ \/ ListUnit("L1", "P1", [malformed |-> FALSE, unitNumber |-> "102", status |-> NONE])
       \/ \E step \in 0..3 : \E form \in StepForms(step) : StepSubmit(form)
       \/ StepBack
       \/ \E agreed, hasSignature \in BOOLEAN : ReviewInput(agreed, hasSignature)
       \/ ReviewSubmit
       \/ \E u \in {Anon, "T2"}, fault \in {"none", "unit.findUnique"} : ReviewAnswered(u, fault)

WizardInit == Start /\ area = "wizard" /\ leases["LS2"].status = "TERMINATED"

WizardSpec == WizardInit /\ [][WizardNext]_vars

----------------------------------------------------------------------------
(* The repair runs: the tenant files requests and the owner moves every    *)
(* request on with PUT and POST.                                           *)

RepairPutBodies ==
    [malformed : {FALSE}, status : {"ACKNOWLEDGED", "IN_PROGRESS", "COMPLETED"}, priority : {NONE}]

RepairPostBodies ==
    [malformed : {FALSE}, message : {"note"}, newStatus : {NONE, "ACKNOWLEDGED", "COMPLETED"}, isPublic : {NONE}]

RepairNext ==
    /\ area = "repairs"
    /\ \/ /\ Cardinality(DOMAIN requests) < MaxRepairs
          /\ FileRequest("T1", Report("Leak", "Tap drips!"), "LS1", "none")
       \/ \E id \in DOMAIN requests, body \in RepairPutBodies :
             PutMaintenance("L1", id, body, "none", MaxUpdates)
       \/ \E id \in DOMAIN requests, body \in RepairPostBodies :
             PostMaintenance("L1", id, body, "none", MaxUpdates)

RepairInit == Start /\ area = "repairs" /\ leases["LS2"].status = "TERMINATED"

RepairSpec == RepairInit /\ [][RepairNext]_vars

----------------------------------------------------------------------------
(* The settlement runs: tenants pay and add payment methods, the owner     *)
(* records manual payments, and the gateway, on its side, settles charges  *)
(* and loses customers.                                                    *)

Ledger(out) ==
    /\ Len(out.store.payments) <= MaxLedger
    /\ Len(out.gateway.intents) <= MaxIntents
    /\ Len(out.gateway.setups) <= MaxIntents
    /\ Cardinality(out.gateway.customers) <= MaxCustomers

Settle(out) == Ledger(out) /\ Commit(out)

\* The rent on the lease
Rent(leaseId) == [malformed |-> FALSE, leaseId |-> leaseId, type |-> "RENT", amount |-> 50]

\* A check handed to the owner, recorded for the tenant named
Check(leaseId, tenantId) ==
    [malformed |-> FALSE, leaseId |-> leaseId, tenantId |-> tenantId, type |-> "RENT", amount |-> 50]

SettlementFaults == {"none", "customers.retrieve", "payment.create"}

PayRent(u, leaseId, fault) == Settle(TenantPaymentsPOST(u, Rent(leaseId), fault))
RecordCheck(u, leaseId, tenantId) == Settle(LandlordPaymentsPOST(u, Check(leaseId, tenantId), "none"))
AddMethod(u, fault) == Settle(PaymentMethodsPOST(u, fault))

\* The gateway reports the charge of an intent as succeeded
ChargeSucceeds(i) ==
    /\ gateway.intents[i].status = "requires_payment_method"
    /\ gateway' = [gateway EXCEPT !.intents[i].status = "succeeded"]
    /\ UNCHANGED <<properties, units, leases, requests, updates, payments, users, notifications, audit, now,
                   area, inflight, outbox, wizard, browser>>

\* A customer is deleted at the gateway
CustomerDeleted(c) ==
    /\ ~c.deleted
    /\ gateway' = [gateway EXCEPT !.customers = (@ \ {c}) \cup {[c EXCEPT !.deleted = TRUE]}]
    /\ UNCHANGED <<properties, units, leases, requests, updates, payments, users, notifications, audit, now,
                   area, inflight, outbox, wizard, browser>>

SettlementNext ==
    /\ area = "settlement"
    /\ \/ \E fault \in SettlementFaults : PayRent("T1", "LS1", fault)
       \/ \E tenantId \in {"T1", "T2"} : RecordCheck("L1", "LS1", tenantId)
       \/ \E fault \in {"none", "customers.retrieve"} : AddMethod("T1", fault)
       \/ \E i \in 1..Len(gateway.intents) : ChargeSucceeds(i)
       \/ \E c \in gateway.customers : CustomerDeleted(c)

SettlementInit == Start /\ area = "settlement" /\ leases["LS2"].status = "ACTIVE"

SettlementSpec == SettlementInit /\ [][SettlementNext]_vars

----------------------------------------------------------------------------
(* Claims about the maintenance lifecycle, checked under LifecycleSpec *)

CountRows(rows, id) == Len(SelectSeq(rows, LAMBDA r : r.requestId = id))

\* A step of a PUT, and of a POST, that the owner is answered 200 or 201
SuccessfulPut ==
    \E u \in LifecycleCallers, id \in DOMAIN requests, body \in LifecyclePutBodies :
        LET out == LandlordMaintenancePUT(u, id, body, "none") IN
        out.resp.status = 200 /\ Commit(out)

SuccessfulPost ==
    \E u \in LifecycleCallers, id \in DOMAIN requests, body \in LifecyclePostBodies :
        LET out == LandlordMaintenancePOST(u, id, body, "none") IN
        out.resp.status = 201 /\ Commit(out)

\* C1 as stated: a successful PUT or POST creates a MaintenanceUpdate row if
\* and only if the status it leaves differs from the status it found.
C1_RowIffStatusChanged ==
    [][(SuccessfulPut \/ SuccessfulPost) =>
        \A id \in DOMAIN requests :
            (CountRows(updates', id) > CountRows(updates, id))
                <=> (requests'[id].status # requests[id].status)]_vars

\* C1 amended: a successful PUT creates exactly one row when it changes the
\* status and none otherwise; a successful POST always creates exactly one
\* row, also when it leaves the status as it is; the row created records the
\* status found as previousStatus and the status left as newStatus.
C1_PutLogsChangePostAlwaysLogs ==
    [][\A id \in DOMAIN requests :
        LET changed == requests'[id].status # requests[id].status
            created == CountRows(updates', id) - CountRows(updates, id)
        IN
        /\ SuccessfulPut => created = (IF changed THEN 1 ELSE 0)
        /\ SuccessfulPost => created = 1
        /\ changed => created = 1
        /\ created = 1 =>
             /\ updates' = Append(updates, updates'[Len(updates')])
             /\ updates'[Len(updates')].previousStatus = requests[id].status
             /\ updates'[Len(updates')].newStatus = requests'[id].status]_vars

\* A POST added a comment and left the status alone, after a PUT that
\* changed the status
C1_CommentWithoutChange ==
    /\ Len(updates) = 2
    /\ updates[1].previousStatus # updates[1].newStatus
    /\ updates[1].message = StatusMessage(updates[1].previousStatus, updates[1].newStatus)
    /\ updates[2].previousStatus = updates[2].newStatus
    /\ updates[2].message = <<"note">>
    /\ requests["M1"].status = updates[1].newStatus

\* C2: once acknowledgedAt or completedAt of a request is set, no PUT or POST
\* changes it, however often ACKNOWLEDGED or COMPLETED is entered again.
C2_TimestampsWrittenOnce ==
    [][\A id \in DOMAIN requests :
        /\ requests[id].acknowledgedAt # NULL => requests'[id].acknowledgedAt = requests[id].acknowledgedAt
        /\ requests[id].completedAt # NULL => requests'[id].completedAt = requests[id].completedAt]_vars

\* ACKNOWLEDGED was left and entered again, and the first timestamp is kept
C2_AcknowledgedReentered ==
    /\ requests["M1"].status = "ACKNOWLEDGED"
    /\ Len(updates) = 3
    /\ updates[1].newStatus = "ACKNOWLEDGED" /\ updates[2].previousStatus = "ACKNOWLEDGED"
    /\ updates[2].newStatus = "COMPLETED" /\ updates[3].newStatus = "ACKNOWLEDGED"
    /\ requests["M1"].acknowledgedAt = 1
    /\ requests["M1"].completedAt = 2

\* C6: after any PUT and POST operations the updates a tenant reads, from
\* the single request and from the list, hold no row with isPublic false,
\* while the landlord's GET of the request returns every row of it.
C6_TenantSeesPublicUpdatesOnly ==
    \A id \in DOMAIN requests :
        /\ \A t \in UserIds :
             \A d \in TenantMaintenanceGET(t, id, "none").resp.data :
                 \A i \in 1..Len(d.updates) : d.updates[i].isPublic
        /\ \A t \in UserIds, status \in maintenanceStatuses \cup {NONE} :
             \A d \in TenantMaintenanceListGET(t, status, "none").resp.data :
                 \A i \in 1..Len(d.updates) : d.updates[i].isPublic
        /\ \A d \in LandlordMaintenanceGET(UnitOwner(requests[id].unitId), id, "none").resp.data :
             /\ Len(d.updates) = CountRows(updates, id)
             /\ \A i \in 1..Len(updates) : updates[i].requestId = id => updates[i] \in Range(d.updates)

\* The tenant reads the request while it holds an internal note
C6_InternalNoteHidden ==
    /\ \E i \in 1..Len(updates) : ~updates[i].isPublic /\ updates[i].requestId = "M1"
    /\ \E d \in TenantMaintenanceGET("T1", "M1", "none").resp.data :
         /\ Len(d.updates) = 1
         /\ \E e \in LandlordMaintenanceGET("L1", "M1", "none").resp.data : Len(e.updates) = 3
    /\ \E d \in TenantMaintenanceListGET("T1", NONE, "none").resp.data : Len(d.updates) = 1

\* The lifecycle graph of the specification
LifecycleEdges ==
    {<<"SUBMITTED", "ACKNOWLEDGED">>, <<"ACKNOWLEDGED", "IN_PROGRESS">>, <<"IN_PROGRESS", "ON_HOLD">>,
     <<"ON_HOLD", "IN_PROGRESS">>, <<"IN_PROGRESS", "COMPLETED">>}
    \cup {<<s, "CANCELLED">> : s \in {"SUBMITTED", "ACKNOWLEDGED", "IN_PROGRESS", "ON_HOLD"}}

\* C9 as stated: every status change a PUT or POST applies is an edge of the
\* lifecycle graph, so COMPLETED and CANCELLED are never left.
C9_ChangesFollowLifecycle ==
    [][\A id \in DOMAIN requests :
        requests'[id].status # requests[id].status
            => <<requests[id].status, requests'[id].status>> \in LifecycleEdges]_vars

\* C9 amended: the handlers check the status of a body against the enum
\* only.  The status of a request is always one of the six, and from every
\* status, COMPLETED and CANCELLED included, a PUT naming a status and a POST
\* naming a newStatus leave the request in exactly that status.
C9_AnyEnumStatusFromAnyStatus ==
    \A id \in DOMAIN requests :
        /\ requests[id].status \in maintenanceStatuses
        /\ \A s \in maintenanceStatuses :
             /\ LandlordMaintenancePUT(UnitOwner(requests[id].unitId), id,
                    [malformed |-> FALSE, status |-> s, priority |-> NONE], "none"
                  ).store.requests[id].status = s
             /\ LandlordMaintenancePOST(UnitOwner(requests[id].unitId), id,
                    [malformed |-> FALSE, message |-> "note", newStatus |-> s, isPublic |-> NONE], "none"
                  ).store.requests[id].status = s

\* A completed request was reopened and a cancelled one completed
C9_TerminalStatusLeft ==
    /\ Len(updates) = 3
    /\ updates[1].newStatus = "COMPLETED" /\ updates[2].previousStatus = "COMPLETED"
    /\ updates[2].newStatus = "CANCELLED" /\ updates[3].previousStatus = "CANCELLED"
    /\ requests["M1"].status = "SUBMITTED"

----------------------------------------------------------------------------
(* Claims about ownership and isolation, checked under Spec *)

\* The outcome shows no data and leaves the store and the gateway alone
Untouched(out) ==
    /\ out.resp.data = NoData
    /\ out.store = Store
    /\ out.gateway = gateway

Forbidden(out) == out.resp.status = 403 /\ out.resp.error = "Forbidden" /\ Untouched(out)

\* The users that are neither the owner of a property nor an administrator
Strangers(pid) == {u \in UserIds : properties[pid].ownerId # u /\ users[u].role # "ADMIN"}

ValidManualBodies == {b \in ManualBodies : ~b.malformed /\ b.leaseId # "" /\ b.tenantId # "" /\ b.amount >= 1}

\* The landlord endpoints that name a request, a property or a lease answer
\* a stranger of its property 403 'Forbidden' without data or change.
StrangerForbiddenByEntity ==
    /\ \A id \in DOMAIN requests : \A u \in Strangers(units[requests[id].unitId].propertyId) :
         /\ Forbidden(LandlordMaintenanceGET(u, id, "none"))
         /\ \A body \in PutBodies : Forbidden(LandlordMaintenancePUT(u, id, body, "none"))
         /\ \A body \in PostBodies : Forbidden(LandlordMaintenancePOST(u, id, body, "none"))
    /\ \A pid \in DOMAIN properties : \A u \in Strangers(pid) :
         /\ Forbidden(PropertyGET(u, pid, "none"))
         /\ \A body \in PropertyBodies : Forbidden(PropertyPUT(u, pid, body, "none"))
         /\ Forbidden(PropertyDELETE(u, pid, "none"))
         /\ Forbidden(UnitsGET(u, pid, "none"))
         /\ \A body \in UnitBodies : Forbidden(UnitsPOST(u, pid, body, "none"))
    /\ \A l \in DOMAIN leases : \A u \in Strangers(units[leases[l].unitId].propertyId) :
         \A body \in ValidManualBodies :
             body.leaseId = l => Forbidden(LandlordPaymentsPOST(u, body, "none"))

\* C3 as stated: on every single-entity landlord endpoint an existing entity
\* whose property is owned by someone else is answered 403 'Forbidden' to a
\* caller who is not an administrator, with no entity data and no change of
\* stored state.
C3_StrangerGetsForbidden ==
    /\ StrangerForbiddenByEntity
    /\ \A x \in DOMAIN units : \A u \in Strangers(units[x].propertyId) :
         \A pid \in DOMAIN properties :
             /\ Forbidden(UnitGET(u, pid, x, "none"))
             /\ \A body \in UnitBodies : Forbidden(UnitPUT(u, pid, x, body, "none"))
             /\ Forbidden(UnitDELETE(u, pid, x, "none"))

\* C3 amended: such a caller never gets entity data and never changes stored
\* state, and the answer is 403 'Forbidden' wherever the ownership check is
\* made on the entity itself.  The unit endpoints check the property named
\* in the path instead: a unit of someone else's property addressed through
\* a property of the caller is answered 400 'Unit does not belong to this
\* property', through a missing property 404, and 403 only through a
\* property the caller does not own.  The manual payment is answered 403 for
\* a body that passes the schema; the schema is checked before the lease is
\* looked up, so another body is answered 400, or 500 when it does not parse.
C3_StrangerNeverReachesEntity ==
    /\ StrangerForbiddenByEntity
    /\ \A x \in DOMAIN units : \A u \in Strangers(units[x].propertyId) :
         \A pid \in DOMAIN properties \cup {"P9"} :
             LET outs == {UnitGET(u, pid, x, "none"), UnitDELETE(u, pid, x, "none")}
                         \cup {UnitPUT(u, pid, x, body, "none") : body \in UnitBodies}
             IN \A out \in outs :
                 /\ Untouched(out)
                 /\ IF pid \notin DOMAIN properties
                    THEN out.resp.status = 404 /\ out.resp.error = "Property not found"
                    ELSE IF u \in Strangers(pid) THEN Forbidden(out)
                    ELSE out.resp.status = 400 /\ out.resp.error = "Unit does not belong to this property"
    /\ \A l \in DOMAIN leases : \A u \in Strangers(units[leases[l].unitId].propertyId) :
         \A body \in ManualBodies :
             body.leaseId = l =>
                 LET out == LandlordPaymentsPOST(u, body, "none") IN
                 /\ Untouched(out)
                 /\ out.resp.status =
                        (IF users[u].role # "LANDLORD" THEN 403
                         ELSE IF body.malformed THEN 500
                         ELSE IF body \in ValidManualBodies THEN 403 ELSE 400)

\* A landlord who deletes the other landlord's unit through the own property is
\* answered 400, through the other property 403
C3_ForeignUnitThroughOwnProperty ==
    /\ "U3" \in DOMAIN units /\ units["U3"].propertyId = "P1"
    /\ UnitGET("L1", "P1", "U3", "none").resp.status = 200
    /\ "U2" \in DOMAIN units /\ ActiveLeasesOf("U2") = {}
    /\ LET out == UnitDELETE("L1", "P1", "U2", "none") IN
       /\ out.resp.status = 400 /\ out.resp.error = "Unit does not belong to this property"
       /\ Untouched(out)
    /\ UnitDELETE("L1", "P2", "U2", "none").resp.status = 403
    /\ UnitDELETE("L2", "P2", "U2", "none").resp.status = 200

\* C4 as stated: every row a landlord list endpoint returns belongs to a
\* property the acting user owns, whatever the query parameters, a
\* propertyId of someone else's property included.
C4_ListsShowOwnRowsOnly ==
    \A u \in UserIds :
        \A pid \in {NONE, "P1", "P2"} :
            /\ \A status \in {NONE, "SUBMITTED"}, priority \in {NONE, "MEDIUM"} :
                 \A d \in LandlordMaintenanceListGET(u, status, priority, pid, "none").resp.data :
                     properties[units[d.request.unitId].propertyId].ownerId = u
            /\ \A status \in {NONE, "PENDING", "COMPLETED"} :
                 \A p \in LandlordPaymentsGET(u, status, pid, "none").resp.data :
                     properties[units[leases[p.leaseId].unitId].propertyId].ownerId = u
            /\ \A status \in {NONE, "ACTIVE"} :
                 \A row \in LandlordTenantsGET(u, pid, status, "none").resp.data :
                     properties[row.lease.propertyId].ownerId = u
        /\ \A id \in UserIds :
             \A d \in LandlordTenantGET(u, id, "none").resp.data :
                 /\ \A row \in d.leases : properties[row.lease.propertyId].ownerId = u
                 /\ \A m \in d.maintenanceRequests : properties[units[m.unitId].propertyId].ownerId = u

\* C5: a tenant never reads or changes what belongs to another tenant.  The
\* request of another tenant is answered 403 without data; a payment on the
\* lease of another tenant creates neither a Payment nor a charge intent and
\* is answered 403 when its body passes the schema; the lists of requests,
\* payments and leases hold rows of the session user only, for every filter.
C5_TenantIsolation ==
    \A t \in UserIds :
        /\ \A id \in DOMAIN requests :
             requests[id].tenantId # t =>
                 LET out == TenantMaintenanceGET(t, id, "none") IN
                 out.resp.status = 403 /\ Untouched(out)
        /\ \A body \in PaymentBodies :
             (body.leaseId \in DOMAIN leases /\ leases[body.leaseId].tenantId # t) =>
                 LET out == TenantPaymentsPOST(t, body, "none") IN
                 /\ Untouched(out)
                 /\ out.resp.status >= 400
                 /\ (~body.malformed /\ body.type \in paymentTypes /\ body.amount >= 1)
                        => out.resp.status = 403
        /\ \A status \in maintenanceStatuses \cup {NONE} :
             \A d \in TenantMaintenanceListGET(t, status, "none").resp.data : d.request.tenantId = t
        /\ \A status \in {NONE, "PENDING", "COMPLETED"}, l \in {NONE, "LS1", "LS2"} :
             \A p \in TenantPaymentsGET(t, status, l, "none").resp.data : p.userId = t
        /\ \A l \in TenantLeaseGET(t, "none").resp.data : l.tenantId = t

\* A tenant is refused the lease of another tenant who has a payment on it
C5_PaymentOnForeignLeaseRefused ==
    /\ Len(payments) = 1 /\ payments[1].userId = "T2" /\ payments[1].leaseId = "LS2"
    /\ payments[1].status = "PENDING"
    /\ LET out == TenantPaymentsPOST("T1", [malformed |-> FALSE, leaseId |-> "LS2", type |-> "RENT",
                                           amount |-> 50], "none")
       IN out.resp.status = 403 /\ Untouched(out)
    /\ TenantPaymentsGET("T1", NONE, "LS2", "none").resp.data = {}
    /\ TenantPaymentsGET("T2", NONE, "LS2", "none").resp.data # {}
    /\ TenantMaintenanceGET("T2", "M1", "none").resp.status = 403

\* C7: a unit that has a lease in status ACTIVE or PENDING_SIGNATURE, and a
\* property with such a unit, is deleted by no caller, whatever collaborator
\* fails: units, properties and totalUnits stay as they are.  The owner and
\* the administrator are answered 400.
C7_LeasedUnitsAreNotDeleted ==
    \A x \in DOMAIN units :
        (\E l \in DOMAIN leases :
            leases[l].unitId = x /\ leases[l].status \in {"ACTIVE", "PENDING_SIGNATURE"}) =>
        LET pid == units[x].propertyId IN
        /\ \A u \in Sessions, path \in DOMAIN properties, fault \in UnitFaults \cup {"none"} :
             LET out == UnitDELETE(u, path, x, fault) IN
             /\ Untouched(out)
             /\ (u \in UserIds \ Strangers(path) /\ fault = "none") => out.resp.status = 400
        /\ \A u \in Sessions, fault \in PropertyFaults \cup {"none"} :
             LET out == PropertyDELETE(u, pid, fault) IN
             /\ Untouched(out)
             /\ (u \in UserIds \ Strangers(pid) /\ fault = "none") => out.resp.status = 400

\* The owner is refused the delete of a unit whose lease awaits signature,
\* next to a unit without lease that can be deleted
C7_PendingLeaseBlocksDelete ==
    /\ "LS2" \in DOMAIN leases /\ leases["LS2"].status = "PENDING_SIGNATURE"
    /\ "U3" \in DOMAIN units /\ units["U3"].propertyId = "P2"
    /\ LET out == UnitDELETE("L2", "P2", "U2", "none") IN
       /\ out.resp.status = 400 /\ Untouched(out)
       /\ out.resp.error = "Cannot delete unit with active leases. Please terminate the lease first."
    /\ UnitDELETE("L2", "P2", "U3", "none").resp.status = 200
    /\ PropertyDELETE("L2", "P2", "none").resp.status = 400

\* C8: the unit numbers of a property are pairwise distinct; a create with
\* a number the property has, and a rename to a number another unit of the
\* property has, change nothing for any caller and are answered 409 to the
\* owner and the administrator.
C8_UnitNumbersStayDistinct ==
    /\ \A x, y \in DOMAIN units :
         (x # y /\ units[x].propertyId = units[y].propertyId) => units[x].unitNumber # units[y].unitNumber
    /\ \A y \in DOMAIN units :
         LET pid == units[y].propertyId IN
         \A u \in Sessions, body \in UnitBodies :
             body.unitNumber = units[y].unitNumber =>
                 /\ LET out == UnitsPOST(u, pid, body, "none") IN
                    /\ Untouched(out)
                    /\ (u \in UserIds \ Strangers(pid) /\ body.status = NONE) => out.resp.status = 409
                 /\ \A x \in DOMAIN units \ {y} :
                      units[x].propertyId = pid =>
                          LET out == UnitPUT(u, pid, x, body, "none") IN
                          /\ Untouched(out)
                          /\ (u \in UserIds \ Strangers(pid) /\ body.status = NONE)
                                => out.resp.status = 409

\* A rename and a create with the number of the unit next door are refused
C8_RenameToTakenNumberRefused ==
    \E x, y \in DOMAIN units :
        /\ x # y /\ units[x].propertyId = "P1" /\ units[y].propertyId = "P1"
        /\ LET body == [malformed |-> FALSE, unitNumber |-> units[y].unitNumber, status |-> NONE] IN
           /\ UnitPUT("L1", "P1", x, body, "none").resp.status = 409
           /\ UnitsPOST("L1", "P1", body, "none").resp.status = 409
           /\ UnitsPOST("L1", "P2", body, "none").resp.status = 403

----------------------------------------------------------------------------
(* The error taxonomy, checked under Spec *)

\* The generic message of a handler's catch block
GenericMessage(op) ==
    CASE op = "GET maintenance" -> "Failed to fetch maintenance request"
      [] op = "PUT maintenance" -> "Failed to update maintenance request"
      [] op = "POST maintenance" -> "Failed to add update"
      [] op = "POST units" -> "Failed to create unit"
      [] op = "PUT unit" -> "Failed to update unit"
      [] op = "DELETE unit" -> "Failed to delete unit"
      [] op = "PUT property" -> "Failed to update property"
      [] op = "DELETE property" -> "Failed to delete property"
      [] op = "POST properties" -> "Failed to create property"
      [] op = "POST tenant payments" -> "Failed to create payment"
      [] op = "POST payments" -> "Failed to record payment"

\* One response of the taxonomy: a 500 carries the generic message and a
\* 4xx neither data nor a change of the store or the gateway
Classified(out) ==
    /\ out.resp.status \in {200, 201, 400, 401, 403, 404, 409, 500}
    /\ out.resp.status = 500 => out.resp.error = GenericMessage(out.resp.op)
    /\ out.resp.status \in 400..499 => Untouched(out)

\* A collaborator made to throw either is never called, and the outcome is
\* the one without the fault, or is called, and the answer is 500
Raised(out, clean) == out.resp.status = 500 \/ out = clean

\* 400 with the first message of the schema
Rejected(out, result) == out.resp.status = 400 /\ out.resp.error = result.errors[1]

OwnerOrAdmin(u, pid) == properties[pid].ownerId = u \/ users[u].role = "ADMIN"

\* Handlers that look the entity up before they read the body
EntityFirst(out, u, found, owned, body, result, done) ==
    IF u = Anon THEN out.resp.status = 401
    ELSE IF ~found THEN out.resp.status = 404
    ELSE IF ~owned THEN out.resp.status = 403 /\ out.resp.error = "Forbidden"
    ELSE IF body.malformed THEN out.resp.status = 500
    ELSE IF ~result.success THEN Rejected(out, result)
    ELSE out.resp.status \in done

\* Handlers that read the body before they look the entity up
BodyFirst(out, u, body, result, found, owned, done) ==
    IF u = Anon THEN out.resp.status = 401
    ELSE IF users[u].role \notin {"LANDLORD", "ADMIN"} THEN out.resp.status = 403
    ELSE IF body.malformed THEN out.resp.status = 500
    ELSE IF ~result.success THEN Rejected(out, result)
    ELSE IF ~found THEN out.resp.status = 404
    ELSE IF ~owned THEN out.resp.status = 403 /\ out.resp.error = "Forbidden"
    ELSE out.resp.status \in done

MaintenanceAnswers(callers, faults) ==
    \A u \in callers, id \in MaintenanceTargets, fault \in faults :
        LET found == id \in DOMAIN requests
            owned == OwnerOrAdmin(u, units[requests[id].unitId].propertyId)
            admitted == u # Anon /\ found /\ owned
        IN
        /\ \A body \in PutBodies :
             LET out == LandlordMaintenancePUT(u, id, body, fault)
                 result == updateMaintenanceRequestSchema(body)
             IN
             /\ Classified(out)
             /\ Raised(out, LandlordMaintenancePUT(u, id, body, "none"))
             /\ fault = "none" => EntityFirst(out, u, found, owned, body, result, {200})
             /\ (fault = "findUnique" /\ u # Anon) => out.resp.status = 500
             /\ (fault = "update" /\ admitted /\ ~body.malformed /\ result.success) => out.resp.status = 500
             /\ out.resp.status = 500 => out.store = Store
        /\ \A body \in PostBodies :
             LET out == LandlordMaintenancePOST(u, id, body, fault)
                 result == addMaintenanceUpdateSchema(body)
             IN
             /\ Classified(out)
             /\ Raised(out, LandlordMaintenancePOST(u, id, body, "none"))
             /\ fault = "none" => EntityFirst(out, u, found, owned, body, result, {201})
             /\ (fault = "findUnique" /\ u # Anon) => out.resp.status = 500
             /\ (fault = "create" /\ admitted /\ ~body.malformed /\ result.success) => out.resp.status = 500
             /\ out.resp.status = 500 => out.store = Store

\* Every caller without a fault; the two landlords with every fault
MaintenanceTaxonomy ==
    MaintenanceAnswers(MaintenanceCallers, {"none"}) /\ MaintenanceAnswers({"L1", "L2"}, MaintenanceFaults)

UnitReached(u, pid) == u # Anon /\ pid \in DOMAIN properties /\ OwnerOrAdmin(u, pid)

\* The answers of the handlers of one unit up to the point where the unit
\* is known to belong to the property of the path
UnitAnswer(out, clean, u, pid, x, fault) ==
    /\ Classified(out)
    /\ Raised(out, clean)
    /\ (fault = "none" /\ ~UnitReached(u, pid)) =>
           IF u = Anon THEN out.resp.status = 401
           ELSE IF pid \notin DOMAIN properties THEN out.resp.status = 404
           ELSE out.resp.status = 403 /\ out.resp.error = "Forbidden"
    /\ (fault = "none" /\ UnitReached(u, pid) /\ x \notin DOMAIN units) => out.resp.status = 404
    /\ (fault = "none" /\ UnitReached(u, pid) /\ x \in DOMAIN units /\ units[x].propertyId # pid)
           => out.resp.status = 400 /\ out.resp.error = "Unit does not belong to this property"
    /\ (fault = "unit.findUnique" /\ UnitReached(u, pid)) => out.resp.status = 500

UnitAnswers(callers, faults) ==
    \A u \in callers, pid \in UnitPaths \cup {"P9"}, fault \in faults :
        LET found == pid \in DOMAIN properties
            owned == OwnerOrAdmin(u, pid)
        IN
        /\ \A body \in UnitBodies :
             LET out == UnitsPOST(u, pid, body, fault)
                 result == createUnitSchema(body)
             IN
             /\ Classified(out)
             /\ Raised(out, UnitsPOST(u, pid, body, "none"))
             /\ fault = "none" => EntityFirst(out, u, found, owned, body, result, {201, 409})
             /\ (fault = "property.findUnique" /\ u # Anon) => out.resp.status = 500
        /\ \A x \in UnitTargets :
             /\ UnitAnswer(UnitDELETE(u, pid, x, fault), UnitDELETE(u, pid, x, "none"), u, pid, x, fault)
             /\ fault = "none" => UnitDELETE(u, pid, x, fault).resp.status \in {200, 400, 401, 403, 404}
             /\ \A body \in UnitBodies :
                  /\ UnitAnswer(UnitPUT(u, pid, x, body, fault), UnitPUT(u, pid, x, body, "none"),
                                u, pid, x, fault)
                  /\ (fault = "none" /\ UnitReached(u, pid) /\ x \in DOMAIN units /\ units[x].propertyId = pid)
                        => EntityFirst(UnitPUT(u, pid, x, body, fault), u, TRUE, TRUE, body,
                                       updateUnitSchema(body), {200, 409})

UnitsTaxonomy ==
    UnitAnswers(LandlordCallers, {"none"}) /\ UnitAnswers({"L1", "L2"}, UnitFaults)

PropertyAnswers(callers, faults) ==
    \A u \in callers, fault \in faults :
        /\ \A pid \in PropertyTargets :
             LET found == pid \in DOMAIN properties
                 owned == OwnerOrAdmin(u, pid)
                 gone == PropertyDELETE(u, pid, fault)
             IN
             /\ \A body \in PropertyBodies :
                  LET out == PropertyPUT(u, pid, body, fault)
                      result == updatePropertySchema(body)
                  IN
                  /\ Classified(out)
                  /\ Raised(out, PropertyPUT(u, pid, body, "none"))
                  /\ fault = "none" => EntityFirst(out, u, found, owned, body, result, {200})
                  /\ (fault = "property.update" /\ u # Anon /\ found /\ owned /\ ~body.malformed
                        /\ result.success) => out.resp.status = 500
             /\ Classified(gone)
             /\ Raised(gone, PropertyDELETE(u, pid, "none"))
             /\ fault = "none" =>
                  EntityFirst(gone, u, found, owned, [malformed |-> FALSE], [success |-> TRUE], {200, 400})
        /\ \A body \in PropertyBodies :
             LET out == PropertiesPOST(u, body, fault)
                 result == createPropertySchema(body)
             IN
             /\ Classified(out)
             /\ Raised(out, PropertiesPOST(u, body, "none"))
             /\ fault = "none" => BodyFirst(out, u, body, result, TRUE, TRUE, {201})
             /\ (fault = "property.create" /\ u \in {"L1", "L2", "A"} /\ ~body.malformed /\ result.success)
                   => out.resp.status = 500

PropertiesTaxonomy ==
    PropertyAnswers(PropertyCallers, {"none"}) /\ PropertyAnswers({"L1", "L2"}, PropertyFaults)

ManualPaymentAnswers(callers, faults) ==
    \A u \in callers, body \in ManualBodies, fault \in faults :
        LET out == LandlordPaymentsPOST(u, body, fault)
            result == recordManualPaymentSchema(body)
            found == body.leaseId \in DOMAIN leases
            owned == OwnerOrAdmin(u, units[leases[body.leaseId].unitId].propertyId)
        IN
        /\ Classified(out)
        /\ Raised(out, LandlordPaymentsPOST(u, body, "none"))
        /\ fault = "none" => BodyFirst(out, u, body, result, found, owned, {201})
        /\ (fault = "lease.findUnique" /\ u \in {"L1", "L2", "A"} /\ ~body.malformed /\ result.success)
              => out.resp.status = 500
        /\ out.resp.status = 500 => out.store = Store

ManualPaymentTaxonomy ==
    /\ ManualPaymentAnswers(PaymentCallers, {"none"})
    /\ ManualPaymentAnswers({"L1", "L2"}, {"lease.findUnique", "payment.create"})

\* The tenant's payment without a fault: the body is read first, then the
\* lease is looked up and compared with the session user
TenantPaymentAnswers ==
    \A u \in TenantCallers, body \in PaymentBodies :
        LET out == TenantPaymentsPOST(u, body, "none")
            result == createPaymentSchema(body)
        IN
        /\ Classified(out)
        /\ IF u = Anon THEN out.resp.status = 401
           ELSE IF body.malformed THEN out.resp.status = 500
           ELSE IF ~result.success THEN Rejected(out, result)
           ELSE IF body.leaseId \notin DOMAIN leases THEN out.resp.status = 404
           ELSE IF leases[body.leaseId].tenantId # u THEN out.resp.status = 403
           ELSE out.resp.status = 201

\* The tenant's payments that reach every collaborator
ReachingPayments ==
    {c \in [u : TenantCallers \ {Anon}, body : PaymentBodies] :
        /\ ~c.body.malformed /\ createPaymentSchema(c.body).success
        /\ c.body.leaseId \in DOMAIN leases /\ leases[c.body.leaseId].tenantId = c.u}

\* The lookup of the stored customer threw and the handler went on with a
\* customer it created
Swallowed(out, u) ==
    /\ out.resp.status = 201
    /\ \E c \in out.gateway.customers : c \notin gateway.customers /\ c.userId = u
    /\ out.store.users = users
    /\ Len(out.store.payments) = Len(payments) + 1

----------------------------------------------------------------------------
(* Claims about onboarding and the tenant's requests, checked under        *)
(* IntakeSpec                                                              *)

\* C11: POST /api/onboarding/submit is all-or-nothing.  A 201 comes with
\* all four effects and nothing else: the profile of the session user is
\* ACTIVE, one new lease in PENDING_SIGNATURE of the session user on the
\* chosen unit, that unit RESERVED, one new audit row that names the new
\* lease.  Any other response comes with no change at all, whichever write
\* throws.
C11_OnboardingAllOrNothing ==
    \A u \in Applicants, body \in OnboardingBodies, fault \in OnboardingFaults \cup {"none"} :
        LET out == OnboardingPOST(u, body, fault) IN
        IF out.resp.status = 201
        THEN \E id \in Range(LeasePool) \ DOMAIN leases :
                /\ out.resp.data = {[leaseId |-> id]}
                /\ out.store.users = [users EXCEPT ![u].status = "ACTIVE"]
                /\ out.store.leases =
                       (id :> [tenantId |-> u, unitId |-> body.unitId, status |-> "PENDING_SIGNATURE"]) @@ leases
                /\ out.store.units = [units EXCEPT ![body.unitId].status = "RESERVED"]
                /\ Len(out.store.audit) = Len(audit) + 1
                /\ SubSeq(out.store.audit, 1, Len(audit)) = audit
                /\ out.store.audit[Len(audit) + 1].entityId = id
                /\ out.store.audit[Len(audit) + 1].userId = u
                /\ out.store.properties = properties /\ out.store.requests = requests
                /\ out.store.updates = updates /\ out.store.payments = payments
                /\ out.gateway = gateway
        ELSE Untouched(out)

\* An application went through, and the next one for another unit would
\* lose every write when the audit row fails
C11_ApplicationStored ==
    /\ Len(audit) = 1 /\ audit[1].userId = "T1" /\ audit[1].unitId = "U3"
    /\ leases[audit[1].entityId] = [tenantId |-> "T1", unitId |-> "U3", status |-> "PENDING_SIGNATURE"]
    /\ units["U3"].status = "RESERVED" /\ users["T1"].status = "ACTIVE"
    /\ users["T2"].status = "PENDING"

\* C12: an application for a unit whose status is not VACANT changes
\* nothing, whoever sends it and whatever it holds, and is answered 409 when
\* it comes with a session and a body that passes the schema.  So after an
\* application for a unit went through, every later one for that unit is
\* answered 409 for as long as the unit stays RESERVED.
C12_TakenUnitRefused ==
    /\ \A u \in Applicants \cup {"L1"}, body \in OnboardingBodies, fault \in OnboardingFaults \cup {"none"} :
         (~body.malformed /\ body.unitId \in DOMAIN units /\ units[body.unitId].status # "VACANT") =>
             LET out == OnboardingPOST(u, body, fault) IN
             /\ Untouched(out)
             /\ (u # Anon /\ completeOnboardingSchema(body).success /\ fault = "none") =>
                    /\ out.resp.status = 409
                    /\ out.resp.error = "This unit is no longer available"
    /\ \A i \in 1..Len(audit) :
         (audit[i].unitId \in DOMAIN units /\ units[audit[i].unitId].status = "RESERVED") =>
             \A u \in UserIds : OnboardingPOST(u, Application(audit[i].unitId), "none").resp.status = 409

\* A unit was let, reopened by its owner and let again; the third
\* application is refused
C12_ThirdApplicationRefused ==
    /\ Len(audit) = 2 /\ audit[1].unitId = "U3" /\ audit[2].unitId = "U3"
    /\ audit[1].userId = "T1" /\ audit[2].userId = "T2"
    /\ units["U3"].status = "RESERVED"
    /\ OnboardingPOST("T1", Application("U3"), "none").resp.status = 409
    /\ OnboardingPOST("T1", Application("U1"), "none").resp.status = 409

\* The bodies that parse and whose description is a text of fewer than ten
\* characters
ShortDescriptions == {body \in RequestBodies : ~body.malformed /\ body.description # NONE
                                                 /\ Length(body.description) < 10}

\* C14 as stated: a signed-in user's request with a description of fewer
\* than ten characters is answered 400 with the message of the description
\* field and creates nothing, with or without an ACTIVE lease.
C14_ShortDescriptionNamed ==
    \A u \in IntakeCallers \ {Anon}, body \in ShortDescriptions, fault \in RequestFaults \cup {"none"} :
        \A pick \in Picks(u) :
            LET out == TenantMaintenancePOST(u, body, pick, fault) IN
            /\ out.resp.status = 400
            /\ out.resp.error = <<"Please provide a detailed description", "description">>
            /\ Untouched(out)

\* C14, amended: such a request is answered 400 and creates nothing, with
\* or without an ACTIVE lease and before any lookup; the error is the
\* message of the first field that fails, which is the description's only
\* when the title before it is a non-empty text.
C14_ShortDescriptionRefused ==
    \A u \in IntakeCallers \ {Anon}, body \in ShortDescriptions, fault \in RequestFaults \cup {"none"} :
        \A pick \in Picks(u) :
            LET out == TenantMaintenancePOST(u, body, pick, fault) IN
            /\ out.resp.status = 400
            /\ Untouched(out)
            /\ out.resp.error = (IF body.title = NONE THEN <<"Required", "title">>
                                 ELSE IF Length(body.title) < 1 THEN <<"Title is required", "title">>
                                 ELSE <<"Please provide a detailed description", "description">>)

\* A user without an ACTIVE lease, after a request of another user was
\* stored: the short description is named, unless the title is empty too
C14_TitleNamedFirst ==
    /\ ActiveLeasesOfTenant("T2") = {} /\ ActiveLeasesOfTenant("T1") # {}
    /\ Cardinality(DOMAIN requests) = 2
    /\ TenantMaintenancePOST("T2", Report("Leak", "Tap drips"), NONE, "none").resp.error
          = <<"Please provide a detailed description", "description">>
    /\ TenantMaintenancePOST("T1", Report("", "Tap drips"), "LS1", "none").resp.status = 400
    /\ TenantMaintenancePOST("T1", Report("", "Tap drips"), "LS1", "none").resp.error
          = <<"Title is required", "title">>

\* The units on which the user holds a lease that is ACTIVE
UnitsLeasedBy(u) == {leases[l].unitId : l \in {k \in DOMAIN leases :
                                                leases[k].tenantId = u /\ leases[k].status = "ACTIVE"}}

\* C15: a POST /api/tenant/maintenance answered 201 adds exactly one request:
\* SUBMITTED, of the session user, on the unit of the user's ACTIVE lease,
\* with the priority of the body or MEDIUM when the body leaves it out.  A
\* signed-in user without an ACTIVE lease whose body passes the schema is
\* answered 400 'No active lease found', and every call that is not answered
\* 201 creates nothing.
C15_RequestStartsSubmitted ==
    \A u \in IntakeCallers, body \in RequestBodies, fault \in RequestFaults \cup {"none"} :
        \A pick \in Picks(u) :
            LET out == TenantMaintenancePOST(u, body, pick, fault) IN
            /\ IF out.resp.status = 201
               THEN \E id \in Range(RequestPool) \ DOMAIN requests :
                       /\ DOMAIN out.store.requests = DOMAIN requests \cup {id}
                       /\ \A m \in DOMAIN requests : out.store.requests[m] = requests[m]
                       /\ out.store.requests[id].status = "SUBMITTED"
                       /\ out.store.requests[id].tenantId = u
                       /\ out.store.requests[id].unitId \in UnitsLeasedBy(u)
                       /\ out.store.requests[id].priority =
                              (IF body.priority = NONE THEN "MEDIUM" ELSE body.priority)
                       /\ [out.store EXCEPT !.requests = requests] = Store
               ELSE Untouched(out)
            /\ (u # Anon /\ ~body.malformed /\ createMaintenanceRequestSchema(body).success
                  /\ UnitsLeasedBy(u) = {} /\ fault = "none") =>
                   /\ out.resp.status = 400
                   /\ out.resp.error = "No active lease found"

\* Requests with the default and with a named priority were stored for the
\* first tenant, and the second tenant, whose lease has ended, is refused
C15_DefaultAndNamedPriority ==
    /\ \E m \in DOMAIN requests \ {"M1"} :
          requests[m] = [tenantId |-> "T1", unitId |-> "U1", status |-> "SUBMITTED", priority |-> "MEDIUM",
                         acknowledgedAt |-> NULL, completedAt |-> NULL]
    /\ \E m \in DOMAIN requests : requests[m].priority = "HIGH" /\ requests[m].status = "SUBMITTED"
    /\ leases["LS2"].status = "TERMINATED"
    /\ TenantMaintenancePOST("T2", Report("Leak", "Tap drips!"), NONE, "none").resp.status = 400

----------------------------------------------------------------------------
(* Claims about payments and the landlord's status changes, checked under  *)
(* Spec                                                                    *)

\* C13: a POST /api/tenant/payments answered 201 adds exactly one Payment
\* row: PENDING, of the session user, on a lease whose tenant is the
\* session user, and carrying the id of the one charge intent the call
\* created at the gateway, which is the intent whose client secret the
\* response returns.
C13_PaymentMatchesIntent ==
    \A u \in TenantCallers, body \in PaymentBodies, fault \in PaymentFaults \cup {"none"} :
        LET out == TenantPaymentsPOST(u, body, fault) IN
        out.resp.status = 201 =>
            \E row \in {r.payment : r \in out.resp.data} :
                LET made == out.gateway.intents[Len(out.gateway.intents)] IN
                /\ out.store.payments = Append(payments, row)
                /\ row.status = "PENDING" /\ row.userId = u
                /\ row.leaseId = body.leaseId
                /\ row.leaseId \in DOMAIN leases /\ leases[row.leaseId].tenantId = u
                /\ out.gateway.intents = Append(gateway.intents, made)
                /\ row.stripePaymentIntentId = made.id
                /\ \A i \in 1..Len(gateway.intents) : gateway.intents[i].id # made.id
                /\ made.metadata.userId = u /\ made.metadata.leaseId = row.leaseId
                /\ \A r \in out.resp.data : r.clientSecret = made.client_secret
                /\ \A i \in 1..Len(gateway.intents) : gateway.intents[i].client_secret # made.client_secret

\* A payment went through after an earlier attempt had left an intent
\* without a row: the row carries the id of the second intent
C13_PaymentAfterOrphanIntent ==
    /\ Len(payments) = 1 /\ Len(gateway.intents) = 2
    /\ payments[1].status = "PENDING" /\ payments[1].userId = "T1"
    /\ leases[payments[1].leaseId].tenantId = "T1"
    /\ payments[1].stripePaymentIntentId = gateway.intents[2].id
    /\ gateway.intents[1].id # gateway.intents[2].id

\* The rows a step adds to the log that change the status of request m
ChangingRowsAdded(m) ==
    SelectSeq(SubSeq(updates', Len(updates) + 1, Len(updates')),
              LAMBDA r : r.requestId = m /\ r.previousStatus # r.newStatus)

\* A step changes the status of a request exactly when it adds one row that
\* records the change
StatusAndRowTogether ==
    /\ Len(updates') >= Len(updates)
    /\ SubSeq(updates', 1, Len(updates)) = updates
    /\ \A m \in DOMAIN requests \cap DOMAIN requests' :
         /\ requests'[m].status # requests[m].status <=> Len(ChangingRowsAdded(m)) = 1
         /\ \A i \in 1..Len(ChangingRowsAdded(m)) :
              /\ ChangingRowsAdded(m)[i].previousStatus = requests[m].status
              /\ ChangingRowsAdded(m)[i].newStatus = requests'[m].status

\* A PUT or POST in which one of the two writes throws leaves the store as
\* it was
FailedWriteLeavesNothing ==
    \A u \in {"L1", "L2"}, id \in MaintenanceTargets, fault \in {"update", "create"} :
        /\ \A body \in PutBodies :
              LET out == LandlordMaintenancePUT(u, id, body, fault) IN
              out.resp.status = 500 => Untouched(out)
        /\ \A body \in PostBodies :
              LET out == LandlordMaintenancePOST(u, id, body, fault) IN
              out.resp.status = 500 => Untouched(out)

Call(out, fault, admitted, body, result, entitled, refusal) ==
    [status |-> out.resp.status,
     wrote |-> out.store # Store \/ out.gateway # gateway,
     clean |-> fault = "none",
     admitted |-> admitted,
     invalid |-> ~body.malformed /\ ~result.success,
     valid |-> ~body.malformed /\ result.success,
     entitled |-> entitled,
     refusal |-> refusal]

Owns(u, pid) == u # Anon /\ pid \in DOMAIN properties /\ OwnerOrAdmin(u, pid)

\* 404 for a missing entity, 403 for an entity of another owner, else 400
LookupThenSchema(found, owned) == IF ~found THEN 404 ELSE IF ~owned THEN 403 ELSE 400

\* A collaborator is made to throw for the two landlords and the first
\* tenant
FaultsFor(u, faults) == IF u \in {"L1", "L2", "T1"} THEN faults \cup {"none"} ELSE {"none"}

\* PUT and POST of a maintenance request, POST of a unit, PUT of a unit and
\* PUT of a property look the entity up and compare its owner before they
\* read the body
EntityFirstCalls ==
    UNION {
        LET owned == id \in DOMAIN requests /\ Owns(u, units[requests[id].unitId].propertyId)
            refusal == LookupThenSchema(id \in DOMAIN requests, owned)
        IN
        {Call(LandlordMaintenancePUT(u, id, body, fault), fault, u # Anon, body,
              updateMaintenanceRequestSchema(body), owned, refusal) :
            body \in PutBodies, fault \in FaultsFor(u, MaintenanceFaults)}
        \cup
        {Call(LandlordMaintenancePOST(u, id, body, fault), fault, u # Anon, body,
              addMaintenanceUpdateSchema(body), owned, refusal) :
            body \in PostBodies, fault \in FaultsFor(u, MaintenanceFaults)} :
        u \in MaintenanceCallers, id \in MaintenanceTargets}
    \cup
    UNION {
        LET refusal == LookupThenSchema(pid \in DOMAIN properties, Owns(u, pid)) IN
        {Call(UnitsPOST(u, pid, body, fault), fault, u # Anon, body, createUnitSchema(body), Owns(u, pid),
              refusal) :
            body \in UnitBodies, fault \in FaultsFor(u, UnitFaults)} :
        u \in LandlordCallers, pid \in UnitPaths \cup {"P9"}}
    \cup
    UNION {
        LET owned == Owns(u, c.pid) /\ c.x \in DOMAIN units /\ units[c.x].propertyId = c.pid
            refusal == IF ~Owns(u, c.pid) THEN LookupThenSchema(c.pid \in DOMAIN properties, FALSE)
                       ELSE LookupThenSchema(c.x \in DOMAIN units, TRUE)
        IN
        {Call(UnitPUT(u, c.pid, c.x, body, fault), fault, u # Anon, body, updateUnitSchema(body), owned,
              refusal) :
            body \in UnitBodies, fault \in FaultsFor(u, UnitFaults)} :
        u \in LandlordCallers, c \in [pid : UnitPaths \cup {"P9"}, x : UnitTargets]}
    \cup
    UNION {
        LET refusal == LookupThenSchema(pid \in DOMAIN properties, Owns(u, pid)) IN
        {Call(PropertyPUT(u, pid, body, fault), fault, u # Anon, body, updatePropertySchema(body),
              Owns(u, pid), refusal) :
            body \in PropertyBodies, fault \in FaultsFor(u, PropertyFaults)} :
        u \in PropertyCallers, pid \in PropertyTargets}

\* POST of a tenant's payment, of a manual payment and of a property read
\* and validate the body before they look anything up
BodyFirstCalls ==
    UNION {
        {Call(TenantPaymentsPOST(u, body, fault), fault, u # Anon, body, createPaymentSchema(body),
              u # Anon /\ body.leaseId \in DOMAIN leases /\ leases[body.leaseId].tenantId = u, 400) :
            body \in PaymentBodies, fault \in FaultsFor(u, PaymentFaults)} :
        u \in TenantCallers}
    \cup
    UNION {
        LET admitted == u # Anon /\ users[u].role \in {"LANDLORD", "ADMIN"} IN
        {Call(LandlordPaymentsPOST(u, body, fault), fault, admitted, body, recordManualPaymentSchema(body),
              admitted /\ body.leaseId \in DOMAIN leases
                  /\ Owns(u, units[leases[body.leaseId].unitId].propertyId), 400) :
            body \in ManualBodies, fault \in FaultsFor(u, {"lease.findUnique", "payment.create"})}
        \cup
        {Call(PropertiesPOST(u, body, fault), fault, admitted, body, createPropertySchema(body), admitted,
              400) :
            body \in PropertyBodies, fault \in FaultsFor(u, PropertyFaults)} :
        u \in PaymentCallers}

\* Nothing is written unless the caller passed the gates, the body passed
\* the schema and the caller owns the entity
WritesComeLast(calls) == \A c \in calls : c.wrote => c.admitted /\ c.valid /\ c.entitled

\* C20 as stated: every mutating handler validates, then checks ownership,
\* then writes: a body that fails the schema is answered 400 whoever owns
\* the entity, and nothing is written before both checks passed.
C20_ValidateThenAuthorize ==
    LET calls == EntityFirstCalls \cup BodyFirstCalls IN
    /\ \A c \in calls : (c.clean /\ c.admitted /\ c.invalid) => c.status = 400
    /\ WritesComeLast(calls)

\* C20, amended: no handler writes before the body passed the schema and the
\* caller passed the ownership check, but the order of the two checks
\* differs.  The three handlers that take the entity from the body validate
\* first and answer 400 to a body that fails the schema; the five that take
\* it from the path look it up and compare its owner first, and answer 404
\* or 403 to such a body before they read it.
C20_ChecksBeforeWrites ==
    LET calls == EntityFirstCalls \cup BodyFirstCalls IN
    /\ \A c \in calls : (c.clean /\ c.admitted /\ c.invalid) => c.status = c.refusal
    /\ WritesComeLast(calls)

\* A unit was listed by its owner; a stranger's body that fails the schema
\* is answered 403 on the unit's path and 400 on the payment's
C20_StrangerRefusedBeforeSchema ==
    /\ "U3" \in DOMAIN units
    /\ UnitsPOST("L2", "P1", [malformed |-> FALSE, unitNumber |-> "", status |-> NONE], "none").resp.status = 403
    /\ UnitsPOST("L1", "P1", [malformed |-> FALSE, unitNumber |-> "", status |-> NONE], "none").resp.status = 400
    /\ TenantPaymentsPOST("T2", [malformed |-> FALSE, leaseId |-> "LS1", type |-> "BOGUS", amount |-> 50],
                          "none").resp.status = 400

----------------------------------------------------------------------------
(* The history of a request, checked under LifecycleSpec *)

\* The rows of request m, oldest first
HistoryOf(m) == SelectSeq(updates, LAMBDA r : r.requestId = m)

\* C19: after any sequence of PUT and POST calls that do not overlap, the
\* rows of a request form a history: the first row starts from SUBMITTED,
\* every later row starts from the status the row before it left, and the
\* status of the request is the one its latest row left, or SUBMITTED when
\* it has no row.
C19_RowsFormHistory ==
    \A m \in DOMAIN requests :
        LET rows == HistoryOf(m) IN
        /\ rows # <<>> => rows[1].previousStatus = "SUBMITTED"
        /\ \A i \in 2..Len(rows) : rows[i].previousStatus = rows[i - 1].newStatus
        /\ requests[m].status = (IF rows = <<>> THEN "SUBMITTED" ELSE rows[Len(rows)].newStatus)

\* A history of three rows: a change, a comment that changes nothing, and a
\* change back to SUBMITTED
C19_HistoryWithComment ==
    /\ Len(HistoryOf("M1")) = 3
    /\ HistoryOf("M1")[1].newStatus = "COMPLETED"
    /\ HistoryOf("M1")[2].previousStatus = "COMPLETED" /\ HistoryOf("M1")[2].newStatus = "COMPLETED"
    /\ HistoryOf("M1")[3].newStatus = "SUBMITTED"
    /\ requests["M1"].status = "SUBMITTED"

----------------------------------------------------------------------------
(* Handlers that overlap, checked under RaceSpec *)

\* The leases in PENDING_SIGNATURE on a unit
PendingLeasesOn(x) == {l \in DOMAIN leases : leases[l].unitId = x /\ leases[l].status = "PENDING_SIGNATURE"}

\* C17: the availability of the unit is checked once, before the
\* transaction.  Every onboarding handler that passed the check commits its
\* lease and is answered 201 whatever the status of the unit has become in
\* the meantime, so two handlers that both passed the check for a VACANT
\* unit leave two leases in PENDING_SIGNATURE on it.
C17_CheckedHandlersAllCommit ==
    \A i \in 1..Len(inflight) :
        inflight[i].kind = "onboarding" =>
            LET e == inflight[i]
                out == OnboardingTransaction(e.u, e.data, "none")
            IN
            /\ out.resp.status = 201
            /\ \E id \in DOMAIN out.store.leases \ DOMAIN leases :
                  /\ DOMAIN out.store.leases = DOMAIN leases \cup {id}
                  /\ out.store.leases[id] =
                        [tenantId |-> e.u, unitId |-> e.data.unitId, status |-> "PENDING_SIGNATURE"]
            /\ \A l \in DOMAIN leases : out.store.leases[l] = leases[l]

\* Both tenants were answered 201 for the one unit
C17_UnitLetTwice ==
    /\ inflight = <<>>
    /\ Len(audit) = 2 /\ audit[1].unitId = "U3" /\ audit[2].unitId = "U3"
    /\ {leases[l].tenantId : l \in PendingLeasesOn("U3")} = {"T1", "T2"}
    /\ Cardinality(PendingLeasesOn("U3")) = 2
    /\ units["U3"].status = "RESERVED"

\* C18: when status updates of one request overlap, every row a step adds to
\* the log still records as previousStatus the status the request had just
\* before that step.
C18_PreviousStatusIsActual ==
    [][\A k \in (Len(updates) + 1)..Len(updates') :
          updates'[k].previousStatus = requests[updates'[k].requestId].status]_vars

----------------------------------------------------------------------------
(* Claims about the handlers of one unit, checked under Spec *)

\* The answers of GET, PUT and DELETE of unit x under property pid
UnitCalls(u, pid, x) ==
    {UnitGET(u, pid, x, "none")}
    \cup {UnitPUT(u, pid, x, body, fault) :
            body \in {[malformed |-> FALSE, unitNumber |-> n, status |-> NONE] : n \in {"", "102"}},
            fault \in FaultsFor(u, {"unit.update"})}
    \cup {UnitDELETE(u, pid, x, fault) : fault \in FaultsFor(u, {"unit.delete", "property.update"})}

\* C23: GET, PUT and DELETE of a unit under a property that the caller may
\* act on answer 400 for a unit of another property, return no unit data
\* and leave every table as it was.
C23_UnitOfOtherPropertyRefused ==
    \A u \in {"L1", "L2", "A"}, pid \in UnitPaths, x \in DOMAIN units :
        units[x].propertyId # pid =>
            \A out \in UnitCalls(u, pid, x) :
                /\ Untouched(out)
                /\ UnitReached(u, pid) => out.resp.status = 400

\* The unit the first owner created is refused to the second owner under
\* the second owner's property, where the first owner may delete it
C23_OwnUnitOnlyUnderOwnProperty ==
    /\ "U3" \in DOMAIN units
    /\ units["U3"].propertyId = "P1"
    /\ UnitDELETE("L2", "P2", "U3", "none").resp.status = 400
    /\ UnitDELETE("L2", "P2", "U3", "none").resp.error = "Unit does not belong to this property"
    /\ UnitGET("L2", "P2", "U3", "none").resp.data = NoData
    /\ UnitDELETE("L1", "P1", "U3", "none").resp.status = 200

----------------------------------------------------------------------------
(* Claims about the timestamps of a request, checked under RepairSpec *)

\* C24: a request whose status is ACKNOWLEDGED has an acknowledgedAt and a
\* request whose status is COMPLETED has a completedAt, in every state
\* reached by the tenant's POST and the owner's PUT and POST.
C24_StatusHasItsTimestamp ==
    \A id \in DOMAIN requests :
        /\ requests[id].status = "ACKNOWLEDGED" => requests[id].acknowledgedAt # NULL
        /\ requests[id].status = "COMPLETED" => requests[id].completedAt # NULL

\* A request the tenant filed was acknowledged, completed and acknowledged
\* again: it keeps its first acknowledgedAt
C24_AcknowledgedAgain ==
    \E id \in DOMAIN requests \ {"M1"} :
        /\ requests[id].status = "ACKNOWLEDGED"
        /\ requests[id].completedAt # NULL
        /\ requests[id].acknowledgedAt # NULL
        /\ requests[id].acknowledgedAt < requests[id].completedAt

----------------------------------------------------------------------------
(* Claims about payments and the gateway, checked under SettlementSpec *)

\* A row recorded by the owner carries no intent
Manual(row) == row.stripePaymentIntentId = NULL

\* C21: no step changes a Payment that exists: a payment created by the
\* tenant's POST is PENDING and stays PENDING, also after the gateway has
\* reported its charge as succeeded, and a manual payment recorded by the
\* owner is COMPLETED and stays COMPLETED.
C21_PaymentStatusNeverChanges ==
    /\ [](\A k \in 1..Len(payments) :
            payments[k].status = IF Manual(payments[k]) THEN "COMPLETED" ELSE "PENDING")
    /\ [][/\ Len(payments') >= Len(payments)
          /\ \A k \in 1..Len(payments) : payments'[k] = payments[k]]_vars

\* A tenant's payment still PENDING though its charge succeeded, next to a
\* manual payment
C21_PendingAfterChargeSucceeded ==
    \E k, m \in 1..Len(payments) :
        /\ ~Manual(payments[k])
        /\ payments[k].status = "PENDING"
        /\ gateway.intents[payments[k].stripePaymentIntentId].status = "succeeded"
        /\ Manual(payments[m])
        /\ payments[m].status = "COMPLETED"

\* C22: every manual payment is attributed to the tenant of the lease it
\* references.
C22_ManualPaymentForLeaseTenant ==
    \A k \in 1..Len(payments) :
        Manual(payments[k]) => payments[k].userId = leases[payments[k].leaseId].tenantId

\* C25: after a successful POST of a payment or of a payment method the
\* stored stripeCustomerId of the user is the customer the intent was
\* created for, and the call added a customer at the gateway only when the
\* user had none stored.
C25_StoredCustomerIsIntentCustomer ==
    \A fault \in {"none", "customers.retrieve"} :
        LET stored == users["T1"].stripeCustomerId
            paid == TenantPaymentsPOST("T1", Rent("LS1"), fault)
            added == PaymentMethodsPOST("T1", fault)
        IN
        /\ paid.resp.status = 201 =>
              /\ paid.store.users["T1"].stripeCustomerId =
                    paid.gateway.intents[Len(paid.gateway.intents)].customer
              /\ stored # NONE => paid.gateway.customers = gateway.customers
        /\ added.resp.status = 200 =>
              /\ added.store.users["T1"].stripeCustomerId =
                    added.gateway.setups[Len(added.gateway.setups)].customer
              /\ stored # NONE => added.gateway.customers = gateway.customers

----------------------------------------------------------------------------
(* Claims about notifications, checked under NoticeSpec *)

\* The bodies with neither a truthy markAllRead nor an array notificationIds
NeitherGiven(body) ==
    ~body.malformed /\ ~Truthy(body.markAllRead) /\ body.notificationIds.kind # "array"

\* C26: PUT /api/notifications changes nothing but the readAt of unread
\* notifications of the session user: the notifications of other users and
\* those already read stay as they are, also when their ids are listed, and
\* a body with neither markAllRead nor an array notificationIds is answered
\* 400 and changes nothing.
C26_OnlyOwnUnreadMarked ==
    \A u \in {Anon, "T1", "L1"}, body \in NoticeBodies, fault \in {"none", "notification.updateMany"} :
        LET out == NotificationsPUT(u, body, fault)
            after == out.store.notifications
        IN
        /\ out.store = [Store EXCEPT !.notifications = after]
        /\ out.gateway = gateway
        /\ DOMAIN after = DOMAIN notifications
        /\ \A n \in DOMAIN notifications :
              /\ after[n] = [notifications[n] EXCEPT !.readAt = after[n].readAt]
              /\ (notifications[n].userId # u \/ notifications[n].readAt # NULL) => after[n] = notifications[n]
              /\ after[n] # notifications[n] => after[n].readAt = now + 1
        /\ (u # Anon /\ NeitherGiven(body)) => out.resp.status = 400 /\ out.store = Store

\* The tenant has read one notification and lists it again together with
\* the owner's unread one: the call is answered 200 and changes nothing,
\* while an empty body is answered 400
C26_ListedButNotMarked ==
    \E n, m \in DOMAIN notifications :
        LET body == [malformed |-> FALSE, markAllRead |-> "false",
                     notificationIds |-> [kind |-> "array", ids |-> {"N1", "N2", "N3"}]]
            out == NotificationsPUT("T1", body, "none")
        IN
        /\ notifications[n].userId = "T1" /\ notifications[n].readAt # NULL /\ notifications[n].readAt < now
        /\ notifications[m].userId = "L1" /\ notifications[m].readAt = NULL
        /\ {n, m} \subseteq body.notificationIds.ids
        /\ out.resp.status = 200
        /\ out.store = Store
        /\ NotificationsPUT("T1", [body EXCEPT !.notificationIds = [kind |-> "string", ids |-> {}]],
                            "none").resp.status = 400

\* The stored preference of the recipient allows the channel of a message
Allowed(message) ==
    IF message.channel = "email" THEN users[message.to].emailNotifications
    ELSE users[message.to].telegramNotifications

\* C29: every message the notify functions hand to the email or the
\* Telegram sender goes to a user whose stored preference for that channel
\* is enabled.
C29_SentOnlyWhenPreferred ==
    [][\A k \in (Len(outbox) + 1)..Len(outbox') : Allowed(outbox'[k])]_vars

----------------------------------------------------------------------------
(* Claims about the route middleware, checked under GateSpec *)

Protected(path) ==
    startsWith(path, "/tenant") \/ startsWith(path, "/landlord") \/ startsWith(path, "/admin")

\* C27: a request without a token for a page under /tenant, /landlord or
\* /admin is redirected and ends at /login; a token whose role is neither
\* TENANT nor ADMIN is redirected away from the tenant pages, one whose role
\* is neither LANDLORD nor ADMIN away from the landlord pages; a protected
\* page is served only to a role allowed for it, an admin page only to ADMIN.
C27_PagesProtectedByRole ==
    LET token == browser.token
        path == browser.path
        response == browser.response
    IN
    /\ (response.kind = "next" /\ startsWith(path, "/tenant")) =>
           token.present /\ token.role \in {"TENANT", "ADMIN"}
    /\ (response.kind = "next" /\ startsWith(path, "/landlord")) =>
           token.present /\ token.role \in {"LANDLORD", "ADMIN"}
    /\ (response.kind = "next" /\ startsWith(path, "/admin")) =>
           token.present /\ token.role = "ADMIN"
    /\ (~token.present /\ Protected(path)) =>
           response.kind = "redirect" /\ response.to \in {"/login", "/api/auth/signin"}
    /\ (~token.present /\ Protected(browser.from) /\ response.kind = "next") => path = "/login"
    /\ (token.present /\ token.role \notin {"TENANT", "ADMIN"} /\ startsWith(path, "/tenant")) =>
           response.kind = "redirect" /\ ~startsWith(response.to, "/tenant")
    /\ (token.present /\ token.role \notin {"LANDLORD", "ADMIN"} /\ startsWith(path, "/landlord")) =>
           response.kind = "redirect" /\ ~startsWith(response.to, "/landlord")

\* A tenant who asked for a landlord page is served the tenant dashboard
C27_TenantSentToOwnDashboard ==
    /\ browser.token = [present |-> TRUE, role |-> "TENANT"]
    /\ browser.from = "/landlord/properties"
    /\ browser.path = "/tenant/dashboard"
    /\ browser.response.kind = "next"

\* C28: following the redirects of the middleware never leads back to a
\* page already requested on the way, whatever the token and the first
\* page, so that a page is served after finitely many hops.
C28_NoRedirectLoop ==
    browser.response.kind = "redirect" => browser.response.to \notin browser.seen

----------------------------------------------------------------------------
(* Claims about the onboarding wizard, checked under WizardSpec *)

\* The fields the steps 0 to 3 fill in
EnteredFields == UNION {StepFields(step) : step \in 0..3}

\* C30, as stated: the wizard sends its POST once.
C30_SubmitsOnce ==
    Len(wizard.sent) <= 1

\* C30: currentStep stays within 0..4 and moves by one step at a time,
\* forward only with a form that validates and keeping what the other
\* steps entered; nothing the wizard does before a POST is answered changes
\* the store; a POST is sent only from step 4, with no other POST pending,
\* and carries what every step entered.  It is sent again when the user
\* submits again after a refusal.
C30_WizardStepByStep ==
    [][/\ wizard'.currentStep \in 0..4
       /\ wizard'.currentStep - wizard.currentStep \in {-1, 0, 1}
       /\ wizard'.currentStep = wizard.currentStep + 1 =>
             /\ StepValid(wizard.currentStep, wizard'.data)
             /\ \A f \in DOMAIN wizard.data \ StepFields(wizard.currentStep) :
                   wizard'.data[f] = wizard.data[f]
       /\ wizard'.currentStep = wizard.currentStep - 1 => wizard'.data = wizard.data
       /\ \A f \in DOMAIN wizard.data : wizard.data[f] # NONE => wizard'.data[f] # NONE
       /\ (wizard' # wizard /\ ~wizard.isSubmitting) => Store' = Store
       /\ wizard'.sent # wizard.sent =>
             /\ wizard.currentStep = 4 /\ wizard'.currentStep = 4
             /\ ~wizard.isSubmitting /\ wizard'.isSubmitting
             /\ Len(wizard'.sent) = Len(wizard.sent) + 1
             /\ \A k \in 1..Len(wizard.sent) : wizard'.sent[k] = wizard.sent[k]
             /\ LET body == wizard'.sent[Len(wizard'.sent)] IN
                /\ \A f \in EnteredFields : body[f] = wizard.data[f] /\ body[f] # NONE
                /\ body.agreedToTerms = "true" /\ body.signature # NONE]_vars

\* The first POST was refused, the second accepted: the applicant holds a
\* lease on the unit chosen in step 3
C30_SubmittedAgain ==
    /\ Len(wizard.sent) = 2
    /\ wizard.page = "/onboarding/success"
    /\ wizard.currentStep = 4
    /\ \E l \in DOMAIN leases :
          leases[l] = [tenantId |-> "T2", unitId |-> wizard.data.unitId, status |-> "PENDING_SIGNATURE"]

====
